---- MODULE Spec2Model ----
(***************************************************************************)
(* State-machine model of the authentication and field-encryption core of  *)
(* the secure profile service: AuthService (register, login, token         *)
(* validation), UserRepository over the users collection, the bearer-token *)
(* middleware and the profile routes, with the rate limiter in front of    *)
(* the routes and the browser's axios client (interceptors, retry wrapper).*)
(*                                                                         *)
(* JavaScript strings are sequences of one-character strings, so that the  *)
(* regular expressions, toLowerCase, trim and length of the source are     *)
(* computed and not assumed.  Every await of a handler is a separate       *)
(* action: the store is read or written at the moment the awaited call is  *)
(* served, and other requests may be served in between.                    *)
(***************************************************************************)
EXTENDS Integers, Sequences, FiniteSets, TLC

VARIABLES
  users,      \* the documents of the users collection
  nextId,     \* source of fresh _id values
  rnd,        \* source of fresh random bytes (bcrypt salts, AES-GCM IVs)
  now,        \* wall clock, in seconds (Math.floor(Date.now() / 1000))
  ticks,      \* number of clock advances taken so far
  encKey,     \* process.env.ENCRYPTION_KEY
  issued,     \* the tokens loginUser has returned to callers
  plain,      \* for the properties: the password and Aadhaar number last written, by _id
  budget,     \* number of requests that may still begin
  proc,       \* the requests in flight, one per connection
  attempts,   \* RateLimitMiddleware.attempts: client identifier -> {count, resetTime}
  millis,     \* milliseconds of the wall clock: Date.now() = now * 1000 + millis
  passedOn,   \* for the properties: the /api/auth/ requests the rate limiter handed to next()
  localStorage, \* the browser's localStorage, key -> value
  location,   \* the browser's window.location.href
  removed     \* for the properties: the tokens the 401 handler took out of localStorage

\* the variables of the rate limiter and of the browser client
edge == <<attempts, millis, passedOn, localStorage, location, removed>>

vars == <<users, nextId, rnd, now, ticks, encKey, issued, plain, budget, proc, edge>>

(***************************************************************************)
(* Bounds of the model.                                                    *)
(***************************************************************************)
MaxRegisterRequests == 3   \* requests begun in one behaviour of SpecRegister
MaxTicks == 3              \* clock advances in one behaviour

Procs == {"c1", "c2"}

\* the rate limiter and the browser before any request: `new Map()`, an
\* empty localStorage and the application's start page
Outside ==
  /\ attempts = <<>>
  /\ millis = 0
  /\ passedOn = <<>>
  /\ localStorage = <<>>
  /\ location = "/"
  /\ removed = {}

(***************************************************************************)
(* Characters and string helpers.                                          *)
(***************************************************************************)
Digits == {"0", "1", "2", "3", "4", "5", "6", "7", "8", "9"}

LowerSeq == <<"a", "b", "c", "d", "e", "f", "g", "h", "i", "j", "k", "l", "m",
              "n", "o", "p", "q", "r", "s", "t", "u", "v", "w", "x", "y", "z">>

UpperSeq == <<"A", "B", "C", "D", "E", "F", "G", "H", "I", "J", "K", "L", "M",
              "N", "O", "P", "Q", "R", "S", "T", "U", "V", "W", "X", "Y", "Z">>

LowerLetters == {LowerSeq[i] : i \in 1..26}
UpperLetters == {UpperSeq[i] : i \in 1..26}
Letters      == LowerLetters \cup UpperLetters

\* \s of a JavaScript regular expression, and what String.prototype.trim strips
WhiteSpace == {" ", "\t", "\n", "\r"}

\* String.prototype.toLowerCase, one character
LowerChar(c) ==
  IF c \in UpperLetters
    THEN LowerSeq[CHOOSE i \in 1..26 : UpperSeq[i] = c]
    ELSE c

\* String.prototype.toLowerCase
toLowerCase(s) == [i \in 1..Len(s) |-> LowerChar(s[i])]

\* String.prototype.trim
trim(s) ==
  LET keep == {i \in 1..Len(s) : s[i] \notin WhiteSpace} IN
  IF keep = {} THEN <<>>
  ELSE LET first == CHOOSE i \in keep : \A j \in keep : i <= j
           last  == CHOOSE i \in keep : \A j \in keep : j <= i
       IN  SubSeq(s, first, last)

\* s.replace(/\s/g, '')
RECURSIVE stripWhiteSpace(_)
stripWhiteSpace(s) ==
  IF s = <<>> THEN <<>>
  ELSE IF Head(s) \in WhiteSpace THEN stripWhiteSpace(Tail(s))
  ELSE <<Head(s)>> \o stripWhiteSpace(Tail(s))

\* String.prototype.includes
includes(s, sub) ==
  \E i \in 1..(Len(s) - Len(sub) + 1) : SubSeq(s, i, i + Len(sub) - 1) = sub

\* every character of s[from..to] is in class
AllIn(s, from, to, class) == \A i \in from..to : s[i] \in class

(***************************************************************************)
(* models/User.ts: the validators.                                         *)
(***************************************************************************)
EmailLocalChars  == Letters \cup Digits \cup {".", "_", "%", "+", "-"}
EmailDomainChars == Letters \cup Digits \cup {".", "-"}

\* /^[A-Za-z0-9._%+-]+@[A-Za-z0-9.-]+\.[A-Za-z]{2,}$/.test(email)
emailRegex(email) ==
  \E at \in 1..Len(email) : \E dot \in 1..Len(email) :
    /\ email[at] = "@"
    /\ email[dot] = "."
    /\ at >= 2
    /\ AllIn(email, 1, at - 1, EmailLocalChars)
    /\ dot >= at + 2
    /\ AllIn(email, at + 1, dot - 1, EmailDomainChars)
    /\ Len(email) - dot >= 2
    /\ AllIn(email, dot + 1, Len(email), Letters)

\* validateEmail without the consecutive-dots check
validateEmail_NoDotCheck(email) ==
  Len(email) > 0 /\ emailRegex(email)

validateEmail(email) ==
  IF Len(email) = 0 THEN FALSE
  ELSE IF includes(email, <<".", ".">>) THEN FALSE
  ELSE LET ats == {i \in 1..Len(email) : email[i] = "@"} IN
       \* email.split('@'): parts.length = number of '@' + 1
       IF Cardinality(ats) + 1 # 2 THEN FALSE
       ELSE LET at == CHOOSE i \in ats : TRUE IN
            IF at - 1 = 0 \/ Len(email) - at = 0 THEN FALSE
            ELSE emailRegex(email)

PhoneChars == Digits \cup WhiteSpace \cup {"-", "(", ")"}

\* /^[+]?[0-9\s\-\(\)]{10,20}$/.test(phone)
validatePhone(phone) ==
  \E skip \in {0, 1} :
    /\ skip = 1 => (Len(phone) >= 1 /\ phone[1] = "+")
    /\ Len(phone) - skip >= 10
    /\ Len(phone) - skip <= 20
    /\ AllIn(phone, skip + 1, Len(phone), PhoneChars)

\* /^\d{12}$/.test(aadhaar.replace(/\s/g, ''))
validateAadhaar(aadhaar) ==
  LET a == stripWhiteSpace(aadhaar) IN
  Len(a) = 12 /\ AllIn(a, 1, 12, Digits)

MinPasswordLength == 8

validateUserData(data) ==
  LET errors ==
        (IF Len(data.email) = 0 \/ ~validateEmail(data.email)
           THEN <<"Invalid email format">> ELSE <<>>)
     \o (IF Len(data.password) = 0 \/ Len(data.password) < MinPasswordLength
           THEN <<"Password must be at least 8 characters long">> ELSE <<>>)
     \o (IF Len(data.firstName) = 0 \/ Len(trim(data.firstName)) = 0
           THEN <<"First name is required">> ELSE <<>>)
     \o (IF Len(data.lastName) = 0 \/ Len(trim(data.lastName)) = 0
           THEN <<"Last name is required">> ELSE <<>>)
     \o (IF Len(data.aadhaarNumber) = 0 \/ ~validateAadhaar(data.aadhaarNumber)
           THEN <<"Invalid Aadhaar number format (must be 12 digits)">> ELSE <<>>)
     \o (IF Len(data.phone) = 0 \/ ~validatePhone(data.phone)
           THEN <<"Invalid phone number format">> ELSE <<>>)
  IN [valid |-> Len(errors) = 0, errors |-> errors]

(***************************************************************************)
(* Errors.  An error message is the sequence of the fragments the source   *)
(* concatenates; MessageIncludes is String.prototype.includes on it for    *)
(* the needles the catch blocks look for (the search is case sensitive:    *)
(* "User validation failed" does not include "Validation failed", nor      *)
(* "Validation failed: " the needle "validation").                         *)
(***************************************************************************)
FragmentIncludes(fragment, needle) ==
  \/ fragment = needle
  \/ fragment = "Validation failed: " /\ needle = "Validation failed"
  \/ fragment = "Failed to decrypt user profile: " /\ needle = "Failed to decrypt"
  \/ fragment = "User validation failed" /\ needle = "validation"
  \/ fragment = "Decryption failed: " /\ needle = "Decryption failed"

MessageIncludes(message, needle) ==
  \E i \in 1..Len(message) : FragmentIncludes(message[i], needle)

Throw(message) == [ok |-> FALSE, message |-> message]

(***************************************************************************)
(* bcrypt.  The hash binds the fresh salt and the key bcrypt derives from  *)
(* the password; bcrypt uses the first 72 bytes of the password only.      *)
(* compare recomputes the hash under the stored salt.                      *)
(***************************************************************************)
bcryptKey(password) ==
  SubSeq(password, 1, IF Len(password) < 72 THEN Len(password) ELSE 72)

bcryptHash(password, salt) == [salt |-> salt, digest |-> bcryptKey(password)]

bcryptCompare(password, hash) == bcryptHash(password, hash.salt) = hash

(***************************************************************************)
(* services/encryptionService.ts.  AES-256-GCM as a symbolic cipher: the   *)
(* ciphertext and the tag are terms over key, iv and plaintext bytes; the  *)
(* tag also covers the associated data.  A buffer is a term and the number *)
(* of its leading bytes that are present; a hex string is the buffer it    *)
(* spells and the way it is spelt.  A JavaScript string is a sequence of   *)
(* UTF-16 code units, among them the two halves of a surrogate pair.       *)
(***************************************************************************)
NoKey == "unset"

AAD == "additional-auth-data"

IvLength == 16     \* bytes
TagLength == 16    \* bytes

\* the tag lengths decipher.setAuthTag accepts when createDecipheriv was
\* given no authTagLength
GcmTagLengths == {4, 8, 12, 13, 14, 15, 16}

HighSurrogate == "\\uD83D"
LowSurrogate  == "\\uDE00"
Replacement   == "\\uFFFD"
Astral        == "U+1F600"     \* the code point of the pair HighSurrogate LowSurrogate

\* the UTF-8 encoding of a string, as the code points encoded: a surrogate
\* pair is one code point, a lone surrogate is encoded as U+FFFD
RECURSIVE toUtf8(_)
toUtf8(s) ==
  IF s = <<>> THEN <<>>
  ELSE IF Len(s) >= 2 /\ s[1] = HighSurrogate /\ s[2] = LowSurrogate
    THEN <<Astral>> \o toUtf8(SubSeq(s, 3, Len(s)))
  ELSE IF s[1] \in {HighSurrogate, LowSurrogate}
    THEN <<Replacement>> \o toUtf8(Tail(s))
  ELSE <<s[1]>> \o toUtf8(Tail(s))

\* the string a UTF-8 byte sequence decodes to
RECURSIVE fromUtf8(_)
fromUtf8(bytes) ==
  IF bytes = <<>> THEN <<>>
  ELSE IF bytes[1] = Astral
    THEN <<HighSurrogate, LowSurrogate>> \o fromUtf8(Tail(bytes))
  ELSE <<bytes[1]>> \o fromUtf8(Tail(bytes))

\* buffer.toString('hex'): lower-case digits, nothing else
toHex(buffer) == [of |-> buffer.of, bytes |-> buffer.bytes, form |-> "lower"]

\* Buffer.from(text, 'hex'): the digits are read in either letter case up to
\* the first character that is not a hex digit
fromHex(text) == [of |-> text.of, bytes |-> text.bytes]

\* !text for a hex string: the empty string
IsEmptyString(text) == text.bytes = 0 /\ text.form # "junk"

gcmCiphertext(key, iv, plaintext) ==
  [cipher |-> "aes-256-gcm", key |-> key, iv |-> iv, plaintext |-> plaintext]

gcmTag(key, iv, ciphertext, aad) ==
  [key |-> key, iv |-> iv, over |-> ciphertext, aad |-> aad]

\* an encryption that strips white space from the plaintext first
encryptSensitiveData_Normalised(plaintext, key, iv) ==
  IF Len(plaintext) = 0
    THEN Throw(<<"Encryption failed: ", "Invalid input: plaintext must be a non-empty string">>)
  ELSE IF key = NoKey
    THEN Throw(<<"Encryption failed: ", "ENCRYPTION_KEY environment variable is not set">>)
  ELSE LET data == toUtf8(stripWhiteSpace(plaintext))
           ct == gcmCiphertext(key, iv, data)
       IN
       [ok |-> TRUE,
        value |-> [encryptedData |-> toHex([of |-> ct, bytes |-> Len(data)]),
                   iv            |-> toHex([of |-> iv, bytes |-> IvLength]),
                   authTag       |-> toHex([of |-> gcmTag(key, iv, ct, AAD),
                                            bytes |-> TagLength])]]

\* the value returned, or the error thrown; iv is the value of randomBytes
encryptSensitiveData(plaintext, key, iv) ==
  IF Len(plaintext) = 0
    THEN Throw(<<"Encryption failed: ", "Invalid input: plaintext must be a non-empty string">>)
  ELSE IF key = NoKey
    THEN Throw(<<"Encryption failed: ", "ENCRYPTION_KEY environment variable is not set">>)
  ELSE LET data == toUtf8(plaintext)
           ct == gcmCiphertext(key, iv, data)
       IN
       [ok |-> TRUE,
        value |-> [encryptedData |-> toHex([of |-> ct, bytes |-> Len(data)]),
                   iv            |-> toHex([of |-> iv, bytes |-> IvLength]),
                   authTag       |-> toHex([of |-> gcmTag(key, iv, ct, AAD),
                                            bytes |-> TagLength])]]

\* the empty string in a component of a stored triple
EmptyData == toHex([of |-> gcmCiphertext(NoKey, 0, <<>>), bytes |-> 0])
EmptyIv   == toHex([of |-> 0, bytes |-> 0])
EmptyTag  == toHex([of |-> gcmTag(NoKey, 0, gcmCiphertext(NoKey, 0, <<>>), ""), bytes |-> 0])

\* the plaintext returned, or the error thrown
decryptSensitiveData(encryptionResult, key) ==
  IF \/ IsEmptyString(encryptionResult.encryptedData)
     \/ IsEmptyString(encryptionResult.iv)
     \/ IsEmptyString(encryptionResult.authTag)
    THEN Throw(<<"Decryption failed: ", "Invalid input: missing required encryption components">>)
  ELSE IF key = NoKey
    THEN Throw(<<"Decryption failed: ", "ENCRYPTION_KEY environment variable is not set">>)
  ELSE LET iv == fromHex(encryptionResult.iv)
           authTag == fromHex(encryptionResult.authTag)
           data == fromHex(encryptionResult.encryptedData)
       IN
       IF iv.bytes = 0
         THEN Throw(<<"Decryption failed: ", "Invalid initialization vector">>)
       ELSE IF authTag.bytes \notin GcmTagLengths
         THEN Throw(<<"Decryption failed: ", "Invalid authentication tag length">>)
       ELSE IF /\ iv.bytes = IvLength
               /\ data.of.key = key
               /\ data.of.iv = iv.of
               /\ data.bytes = Len(data.of.plaintext)
               \* the tag bytes given are compared, however few
               /\ authTag.of = gcmTag(key, iv.of, data.of, AAD)
         THEN [ok |-> TRUE, value |-> fromUtf8(data.of.plaintext)]
       ELSE Throw(<<"Decryption failed: ", "Unsupported state or unable to authenticate data">>)

(***************************************************************************)
(* The users collection (models/User.ts schema, UserRepository).           *)
(***************************************************************************)
\* a schema whose email path lacks lowercase: true
UserModel_NoLowercase(userData, id) ==
  [id             |-> id,
   email          |-> trim(userData.email),
   password       |-> userData.password,
   firstName      |-> trim(userData.firstName),
   lastName       |-> trim(userData.lastName),
   aadhaarNumber  |-> userData.aadhaarEncryption.encryptedData,
   aadhaarIv      |-> userData.aadhaarEncryption.iv,
   aadhaarAuthTag |-> userData.aadhaarEncryption.authTag,
   phone          |-> trim(userData.phone)]

\* new UserModel({...}): the schema setters (lowercase, trim) are applied
UserModel(userData, id) ==
  [id             |-> id,
   email          |-> trim(toLowerCase(userData.email)),
   password       |-> userData.password,
   firstName      |-> trim(userData.firstName),
   lastName       |-> trim(userData.lastName),
   aadhaarNumber  |-> userData.aadhaarEncryption.encryptedData,
   aadhaarIv      |-> userData.aadhaarEncryption.iv,
   aadhaarAuthTag |-> userData.aadhaarEncryption.authTag,
   phone          |-> trim(userData.phone)]

\* the required: true validators of the string paths the setters can empty
schemaValid(doc) ==
  /\ Len(doc.email) > 0
  /\ Len(doc.firstName) > 0
  /\ Len(doc.lastName) > 0
  /\ Len(doc.phone) > 0

\* the unique index on email
uniqueIndexAllows(store, doc) == \A u \in store : u.email # doc.email

\* UserModel.findOne({ email: email.toLowerCase() })
findOneByEmail(store, email) == {u \in store : u.email = toLowerCase(email)}

\* UserModel.findById(id)
findById(store, id) == {u \in store : u.id = id}

\* the outcome of userRepository.createUser: the error it throws, or the
\* document saved with its timestamps
createUser(store, userData, id, date) ==
  LET doc == UserModel(userData, id) IN
  IF ~schemaValid(doc)
    THEN Throw(<<"Failed to create user: ", "User validation failed">>)
  ELSE IF ~uniqueIndexAllows(store, doc)
    THEN Throw(<<"Email already exists">>)     \* error.code === 11000
  ELSE [ok |-> TRUE,
        value |-> [f \in DOMAIN doc \cup {"createdAt", "updatedAt"} |->
                     IF f \in DOMAIN doc THEN doc[f] ELSE date]]

(***************************************************************************)
(* Requests.  proc[c] is the request connection c is serving:              *)
(*   op   the handler, pc the await it is parked at ("done": answered),    *)
(*   arg  its input, loc its local variables, res its outcome, and         *)
(*   calls the repository methods it has invoked so far, pre the emails    *)
(*   on record when it began (both kept for the properties only).          *)
(***************************************************************************)
Idle == [op |-> "none", pc |-> "done"]

Free(c) == proc[c].pc = "done"

CanBegin(c) == Free(c) /\ budget > 0

Emails(store) == {u.email : u \in store}

(***************************************************************************)
(* AuthService.registerUser                                                *)
(***************************************************************************)
\* a catch block that does not recognise the duplicate error
registerCatch_Generic(message) ==
  IF MessageIncludes(message, "Validation failed")
    THEN Throw(message)
    ELSE Throw(<<"Registration failed">>)

\* the catch block of registerUser: the error that leaves the method
registerCatch(message) ==
  IF MessageIncludes(message, "Email already exists")
    THEN Throw(<<"Email already exists">>)
  ELSE IF MessageIncludes(message, "Validation failed")
    THEN Throw(message)
  ELSE Throw(<<"Registration failed">>)

\* registerUser up to its first await: validateUserData, then the
\* emailExists query is sent
RegisterUser(c, userData) ==
  LET validation == validateUserData(userData)
      begun == [op |-> "register", arg |-> userData, pre |-> Emails(users)]
  IN
  /\ CanBegin(c)
  /\ budget' = budget - 1
  /\ proc' = [proc EXCEPT ![c] =
       IF ~validation.valid
         THEN begun @@ [pc |-> "done", calls |-> <<>>,
                        res |-> registerCatch(<<"Validation failed: ">> \o validation.errors)]
         ELSE begun @@ [pc |-> "emailExists", calls |-> <<"emailExists">>]]
  /\ UNCHANGED <<users, nextId, rnd, now, ticks, encKey, issued, plain, edge>>

\* the store answers emailExists; on a free email bcrypt.hash is started
RegisterEmailExists(c) ==
  /\ proc[c].op = "register" /\ proc[c].pc = "emailExists"
  /\ proc' = [proc EXCEPT ![c] =
       IF findOneByEmail(users, proc[c].arg.email) # {}
         THEN [@ EXCEPT !.pc = "done"] @@ [res |-> registerCatch(<<"Email already exists">>)]
         ELSE [@ EXCEPT !.pc = "hash"]]
  /\ UNCHANGED <<users, nextId, rnd, now, ticks, encKey, issued, plain, budget, edge>>

\* bcrypt.hash resolves with a fresh salt; the Aadhaar number is encrypted
\* under a fresh IV; the document is built and its save is sent
RegisterHash(c) ==
  LET userData == proc[c].arg
      hashedPassword == bcryptHash(userData.password, rnd)
      aadhaarEncryption == encryptSensitiveData(userData.aadhaarNumber, encKey, rnd + 1)
  IN
  /\ proc[c].op = "register" /\ proc[c].pc = "hash"
  /\ IF ~aadhaarEncryption.ok
       THEN /\ rnd' = rnd + 1
            /\ proc' = [proc EXCEPT ![c] =
                 [@ EXCEPT !.pc = "done"] @@ [res |-> registerCatch(aadhaarEncryption.message)]]
       ELSE /\ rnd' = rnd + 2
            /\ proc' = [proc EXCEPT ![c] =
                 [@ EXCEPT !.pc = "createUser", !.calls = Append(@, "createUser")]
                 @@ [loc |-> [email |-> userData.email,
                              password |-> hashedPassword,
                              firstName |-> userData.firstName,
                              lastName |-> userData.lastName,
                              aadhaarEncryption |-> aadhaarEncryption.value,
                              phone |-> userData.phone]]]
  /\ UNCHANGED <<users, nextId, now, ticks, encKey, issued, plain, budget, edge>>

\* a save that inserts the document before the schema and the index reject it
RegisterCreateUser_InsertFirst(c) ==
  LET saved == createUser(users, proc[c].loc, nextId, now) IN
  /\ proc[c].op = "register" /\ proc[c].pc = "createUser"
  /\ nextId' = nextId + 1
  /\ users' = users \cup {UserModel(proc[c].loc, nextId) @@ [createdAt |-> now, updatedAt |-> now]}
  /\ proc' = [proc EXCEPT ![c] =
       [@ EXCEPT !.pc = "done"] @@
       [res |-> IF saved.ok
                  THEN [ok |-> TRUE, success |-> TRUE,
                        message |-> <<"User registered successfully">>]
                  ELSE registerCatch(saved.message)]]
  /\ plain' = IF saved.ok
                THEN plain @@ (nextId :> [password |-> proc[c].arg.password,
                                          aadhaarNumber |-> proc[c].arg.aadhaarNumber])
                ELSE plain
  /\ UNCHANGED <<rnd, now, ticks, encKey, issued, budget, edge>>

\* the store serves the save of createUser
RegisterCreateUser(c) ==
  LET saved == createUser(users, proc[c].loc, nextId, now) IN
  /\ proc[c].op = "register" /\ proc[c].pc = "createUser"
  /\ nextId' = nextId + 1
  /\ users' = IF saved.ok THEN users \cup {saved.value} ELSE users
  /\ proc' = [proc EXCEPT ![c] =
       [@ EXCEPT !.pc = "done"] @@
       [res |-> IF saved.ok
                  THEN [ok |-> TRUE, success |-> TRUE,
                        message |-> <<"User registered successfully">>]
                  ELSE registerCatch(saved.message)]]
  /\ plain' = IF saved.ok
                THEN plain @@ (nextId :> [password |-> proc[c].arg.password,
                                          aadhaarNumber |-> proc[c].arg.aadhaarNumber])
                ELSE plain
  /\ UNCHANGED <<rnd, now, ticks, encKey, issued, budget, edge>>

(***************************************************************************)
(* jsonwebtoken.  A token is its payload and an HS256 signature, a term    *)
(* over the signing secret and the signed payload; a string that is not    *)
(* three dot-separated segments is malformed.  jwt.verify checks the       *)
(* format, then the signature, then the exp claim against the clock.       *)
(***************************************************************************)
JwtSecret == "jwt-secret"      \* process.env.JWT_SECRET, read once by the constructor

TokenLifetime == 86400         \* 24 * 60 * 60 seconds

HS256(payload, secret) == [alg |-> "HS256", secret |-> secret, over |-> payload]

jwtSign(payload, secret) ==
  [segments |-> 3, payload |-> payload, signature |-> HS256(payload, secret)]

\* a verification that treats the expiry instant as still valid
jwtVerify_ExpiryInclusive(token, secret, clock) ==
  IF token.segments # 3
    THEN [ok |-> FALSE, error |-> "JsonWebTokenError"]
  ELSE IF token.signature # HS256(token.payload, secret)
    THEN [ok |-> FALSE, error |-> "JsonWebTokenError"]
  ELSE IF clock > token.payload.exp
    THEN [ok |-> FALSE, error |-> "TokenExpiredError"]
  ELSE [ok |-> TRUE, value |-> token.payload]

\* jwt.decode in place of jwt.verify: the signature is not checked
jwtVerify_DecodeOnly(token, secret, clock) ==
  IF token.segments # 3
    THEN [ok |-> FALSE, error |-> "JsonWebTokenError"]
  ELSE IF clock >= token.payload.exp
    THEN [ok |-> FALSE, error |-> "TokenExpiredError"]
  ELSE [ok |-> TRUE, value |-> token.payload]

\* the payload, or the name of the error class thrown
jwtVerify(token, secret, clock) ==
  IF token.segments # 3
    THEN [ok |-> FALSE, error |-> "JsonWebTokenError"]      \* jwt malformed
  ELSE IF token.signature # HS256(token.payload, secret)
    THEN [ok |-> FALSE, error |-> "JsonWebTokenError"]      \* invalid signature
  ELSE IF clock >= token.payload.exp
    THEN [ok |-> FALSE, error |-> "TokenExpiredError"]      \* jwt expired
  ELSE [ok |-> TRUE, value |-> token.payload]

\* AuthService.validateToken at clock time `clock`
validateToken(token, clock) ==
  LET decoded == jwtVerify(token, JwtSecret, clock) IN
  IF decoded.ok THEN decoded
  ELSE IF decoded.error = "TokenExpiredError" THEN Throw(<<"Token expired">>)
  ELSE IF decoded.error = "JsonWebTokenError" THEN Throw(<<"Invalid token">>)
  ELSE Throw(<<"Token validation failed">>)

(***************************************************************************)
(* AuthService.loginUser                                                   *)
(***************************************************************************)
\* the catch block of loginUser
loginCatch(message) ==
  IF message = <<"Invalid credentials">>
    THEN Throw(message)
    ELSE Throw(<<"Authentication failed">>)

\* loginUser up to its first await: the findUserByEmail query is sent
LoginUser(c, credentials) ==
  /\ CanBegin(c)
  /\ budget' = budget - 1
  /\ proc' = [proc EXCEPT ![c] =
       [op |-> "login", pc |-> "findUserByEmail", arg |-> credentials]]
  /\ UNCHANGED <<users, nextId, rnd, now, ticks, encKey, issued, plain, edge>>

\* a lookup that reports an unknown email with an error of its own
LoginFindUser_NotFound(c) ==
  LET found == findOneByEmail(users, proc[c].arg.email) IN
  /\ proc[c].op = "login" /\ proc[c].pc = "findUserByEmail"
  /\ proc' = [proc EXCEPT ![c] =
       IF found = {}
         THEN [@ EXCEPT !.pc = "done"] @@
              [found |-> FALSE, res |-> loginCatch(<<"User not found">>)]
         ELSE [@ EXCEPT !.pc = "compare"] @@
              [found |-> TRUE, user |-> CHOOSE u \in found : TRUE]]
  /\ UNCHANGED <<users, nextId, rnd, now, ticks, encKey, issued, plain, budget, edge>>

\* the store answers findUserByEmail; for a user bcrypt.compare is started
LoginFindUser(c) ==
  LET found == findOneByEmail(users, proc[c].arg.email) IN
  /\ proc[c].op = "login" /\ proc[c].pc = "findUserByEmail"
  /\ proc' = [proc EXCEPT ![c] =
       IF found = {}
         THEN [@ EXCEPT !.pc = "done"] @@
              [found |-> FALSE, res |-> loginCatch(<<"Invalid credentials">>)]
         ELSE [@ EXCEPT !.pc = "compare"] @@
              [found |-> TRUE, user |-> CHOOSE u \in found : TRUE]]
  /\ UNCHANGED <<users, nextId, rnd, now, ticks, encKey, issued, plain, budget, edge>>

\* bcrypt.compare resolves; on a match the payload is built from two reads
\* of the clock (the second may fall into the next second), the token is
\* signed and updateLastLogin is sent
LoginCompare(c) ==
  LET user == proc[c].user IN
  /\ proc[c].op = "login" /\ proc[c].pc = "compare"
  /\ IF ~bcryptCompare(proc[c].arg.password, user.password)
       THEN /\ proc' = [proc EXCEPT ![c] =
                 [@ EXCEPT !.pc = "done"] @@ [res |-> loginCatch(<<"Invalid credentials">>)]]
            /\ UNCHANGED <<now, ticks>>
       ELSE \E elapsed \in {0, 1} :
              LET payload == [userId |-> user.id,
                              email  |-> user.email,
                              iat    |-> now,
                              exp    |-> (now + elapsed) + TokenLifetime]
                  token == jwtSign(payload, JwtSecret)
              IN
              /\ elapsed = 1 => ticks < MaxTicks
              /\ now' = now + elapsed
              /\ ticks' = ticks + elapsed
              /\ proc' = [proc EXCEPT ![c] =
                   [@ EXCEPT !.pc = "updateLastLogin"] @@
                   [token |-> token, date |-> now + elapsed]]
  /\ UNCHANGED <<users, nextId, rnd, encKey, issued, plain, budget, edge>>

\* an updateLastLogin that stamps every record of the collection
LoginUpdateLastLogin_TouchAll(c) ==
  LET user == proc[c].user IN
  /\ proc[c].op = "login" /\ proc[c].pc = "updateLastLogin"
  /\ users' = {[u EXCEPT !.updatedAt = proc[c].date] : u \in users}
  /\ issued' = issued \cup {proc[c].token}
  /\ proc' = [proc EXCEPT ![c] =
       [@ EXCEPT !.pc = "done"] @@
       [at  |-> now,
        res |-> [ok |-> TRUE,
                 token |-> proc[c].token,
                 user |-> [id |-> user.id, email |-> user.email,
                           firstName |-> user.firstName, lastName |-> user.lastName]]]]
  /\ UNCHANGED <<nextId, rnd, now, ticks, encKey, plain, budget, edge>>

\* a login that returns the user document as the store holds it
LoginUpdateLastLogin_WholeUser(c) ==
  LET user == proc[c].user IN
  /\ proc[c].op = "login" /\ proc[c].pc = "updateLastLogin"
  /\ users' = {IF u.id = user.id THEN [u EXCEPT !.updatedAt = proc[c].date] ELSE u : u \in users}
  /\ issued' = issued \cup {proc[c].token}
  /\ proc' = [proc EXCEPT ![c] =
       [@ EXCEPT !.pc = "done"] @@
       [at  |-> now,
        res |-> [ok |-> TRUE, token |-> proc[c].token, user |-> user]]]
  /\ UNCHANGED <<nextId, rnd, now, ticks, encKey, plain, budget, edge>>

\* the store serves updateLastLogin; loginUser returns
LoginUpdateLastLogin(c) ==
  LET user == proc[c].user IN
  /\ proc[c].op = "login" /\ proc[c].pc = "updateLastLogin"
  /\ users' = {IF u.id = user.id THEN [u EXCEPT !.updatedAt = proc[c].date] ELSE u : u \in users}
  /\ issued' = issued \cup {proc[c].token}
  /\ proc' = [proc EXCEPT ![c] =
       [@ EXCEPT !.pc = "done"] @@
       [at  |-> now,
        res |-> [ok |-> TRUE,
                 token |-> proc[c].token,
                 user |-> [id |-> user.id, email |-> user.email,
                           firstName |-> user.firstName, lastName |-> user.lastName]]]]
  /\ UNCHANGED <<nextId, rnd, now, ticks, encKey, plain, budget, edge>>

(***************************************************************************)
(* AuthService.validateToken, called with a presented token                *)
(***************************************************************************)
ValidateToken(c, token) ==
  /\ CanBegin(c)
  /\ budget' = budget - 1
  /\ proc' = [proc EXCEPT ![c] =
       [op |-> "validateToken", pc |-> "done", arg |-> token,
        at |-> now, res |-> validateToken(token, now)]]
  /\ UNCHANGED <<users, nextId, rnd, now, ticks, encKey, issued, plain, edge>>

(***************************************************************************)
(* The clock.                                                              *)
(***************************************************************************)

\* a request in flight lasts seconds (the driver's socket timeout is 45 s)
Tick ==
  /\ ticks < MaxTicks
  /\ now' = now + 1
  /\ ticks' = ticks + 1
  /\ UNCHANGED <<users, nextId, rnd, encKey, issued, plain, budget, proc, edge>>

\* between requests the clock may advance by almost a token lifetime
Jump ==
  /\ ticks < MaxTicks
  /\ \A c \in Procs : Free(c)
  /\ now' = now + (TokenLifetime - 1)
  /\ ticks' = ticks + 1
  /\ UNCHANGED <<users, nextId, rnd, encKey, issued, plain, budget, proc, edge>>

(***************************************************************************)
(* Inputs.                                                                 *)
(***************************************************************************)
EmailAlice      == <<"a", "l", "@", "x", ".", "i", "o">>
EmailAliceUpper == <<"A", "l", "@", "X", ".", "i", "o">>
EmailBob        == <<"b", "o", "@", "x", ".", "i", "o">>
EmailNoTld      == <<"a", "l", "@", "x">>
EmailDotDot     == <<"a", ".", ".", "l", "@", "x", ".", "i", "o">>
EmailTwoAts     == <<"a", "@", "l", "@", "x", ".", "i", "o">>

PasswordOne   == <<"s", "e", "c", "r", "e", "t", "0", "1">>
PasswordTwo   == <<"s", "e", "c", "r", "e", "t", "0", "2">>
PasswordShort == <<"s", "e", "c", "r", "e", "t", "0">>
\* two passwords of 73 characters that differ in the last one only
PasswordLongOne == [i \in 1..73 |-> IF i <= 72 THEN "x" ELSE "1"]
PasswordLongTwo == [i \in 1..73 |-> IF i <= 72 THEN "x" ELSE "2"]

AadhaarOne     == <<"1", "2", "3", "4", "5", "6", "7", "8", "9", "0", "1", "2">>
AadhaarTwo     == <<"0", "0", "0", "0", "0", "0", "0", "0", "0", "0", "0", "0">>
AadhaarSpaced  == <<"1", "2", "3", "4", " ", "5", "6", "7", "8", " ", "9", "0", "1", "2">>
AadhaarShort   == <<"1", "2", "3", "4", "5", "6", "7", "8", "9", "0", "1">>
AadhaarLetters == <<"a", "b", "c", "d", "1", "2", "3", "4", "5", "6", "7", "8">>

PhoneOne    == <<"9", "8", "7", "6", "5", "4", "3", "2", "1", "0">>
PhonePlus   == <<"+", "9", "1", "-", "9", "8", "7", "6", "5", "4", "3", "2", "1", "0">>
PhoneShort  == <<"1", "2", "3">>
PhoneBlank  == [i \in 1..10 |-> " "]

Alice ==
  [email |-> EmailAlice, password |-> PasswordOne,
   firstName |-> <<"A", "l">>, lastName |-> <<"L", "i">>,
   aadhaarNumber |-> AadhaarOne, phone |-> PhoneOne]

Bob ==
  [email |-> EmailBob, password |-> PasswordLongOne,
   firstName |-> <<" ", "B", "o">>, lastName |-> <<"B", "a">>,
   aadhaarNumber |-> AadhaarSpaced, phone |-> PhonePlus]

\* the same mailbox as Alice in another letter case, all other fields differ
AliceAgain ==
  [email |-> EmailAliceUpper, password |-> PasswordTwo,
   firstName |-> <<"Z", "o">>, lastName |-> <<"Z", "a">>,
   aadhaarNumber |-> AadhaarTwo, phone |-> PhonePlus]

ValidRegistrations == {Alice, Bob, AliceAgain}

\* registrations that break one structural rule each, or several
InvalidRegistrations ==
  { [Alice EXCEPT !.email = EmailNoTld],
    [Alice EXCEPT !.email = EmailDotDot],
    [Alice EXCEPT !.email = EmailTwoAts],
    [Alice EXCEPT !.email = <<>>],
    [Alice EXCEPT !.password = PasswordShort],
    [Alice EXCEPT !.firstName = <<" ", " ">>],
    [Alice EXCEPT !.lastName = <<>>],
    [Alice EXCEPT !.aadhaarNumber = AadhaarShort],
    [Alice EXCEPT !.aadhaarNumber = AadhaarLetters],
    [Alice EXCEPT !.phone = PhoneShort],
    [Bob EXCEPT !.password = <<>>, !.phone = <<>>] }

\* registrations validateUserData accepts and the schema rejects
UnstorableRegistrations == { [Alice EXCEPT !.phone = PhoneBlank] }

Registrations ==
  ValidRegistrations \cup InvalidRegistrations \cup UnstorableRegistrations

(***************************************************************************)
(* Registration alone: concurrent registerUser calls over one store.       *)
(***************************************************************************)
Boot ==
  /\ users = {}
  /\ nextId = 1
  /\ rnd = 1
  /\ now = 0
  /\ ticks = 0
  /\ encKey \in {"k1", NoKey}
  /\ issued = {}
  /\ plain = <<>>
  /\ proc = [c \in Procs |-> Idle]
  /\ Outside

InitRegister == Boot /\ budget = MaxRegisterRequests

NextRegister ==
  \E c \in Procs :
    \/ \E userData \in Registrations : RegisterUser(c, userData)
    \/ RegisterEmailExists(c)
    \/ RegisterHash(c)
    \/ RegisterCreateUser(c)

SpecRegister == InitRegister /\ [][NextRegister]_vars

(***************************************************************************)
(* A store with two registered users: the state SpecRegister reaches by    *)
(* registering Alice and then Bob on a keyed server (SeededIsReachable).   *)
(***************************************************************************)
seed(userData, id, salt, iv, date) ==
  createUser({},
             [email |-> userData.email,
              password |-> bcryptHash(userData.password, salt),
              firstName |-> userData.firstName,
              lastName |-> userData.lastName,
              aadhaarEncryption |-> encryptSensitiveData(userData.aadhaarNumber, "k1", iv).value,
              phone |-> userData.phone],
             id, date).value

Seeded ==
  /\ users = {seed(Alice, 1, 1, 2, 0), seed(Bob, 2, 3, 4, 0)}
  /\ nextId = 3
  /\ rnd = 5
  /\ now = 0
  /\ encKey = "k1"
  /\ issued = {}
  /\ plain = (1 :> [password |-> Alice.password, aadhaarNumber |-> Alice.aadhaarNumber])
          @@ (2 :> [password |-> Bob.password, aadhaarNumber |-> Bob.aadhaarNumber])

SeededIsReachable == Seeded /\ \A c \in Procs : Free(c)

(***************************************************************************)
(* Login: logins, registrations and the clock over the seeded store.       *)
(***************************************************************************)
MaxLoginRequests == 3

EmailCarol == <<"c", "a", "@", "x", ".", "i", "o">>

Carol == [Alice EXCEPT !.email = EmailCarol, !.password = PasswordTwo]

LoginAttempts ==
  { [email |-> EmailAlice,      password |-> PasswordOne],
    [email |-> EmailAliceUpper, password |-> PasswordOne],
    [email |-> EmailAlice,      password |-> PasswordTwo],
    [email |-> EmailCarol,      password |-> PasswordTwo],
    [email |-> EmailCarol,      password |-> PasswordOne],
    [email |-> EmailBob,        password |-> PasswordLongOne],
    [email |-> EmailBob,        password |-> PasswordLongTwo] }

InitLogin ==
  /\ Seeded
  /\ ticks = 0
  /\ budget = MaxLoginRequests
  /\ proc = [c \in Procs |-> Idle]
  /\ Outside

NextLogin ==
  \E c \in Procs :
    \/ \E credentials \in LoginAttempts : LoginUser(c, credentials)
    \/ LoginFindUser(c)
    \/ LoginCompare(c)
    \/ LoginUpdateLastLogin(c)
    \/ \E userData \in {Carol, AliceAgain} : RegisterUser(c, userData)
    \/ RegisterEmailExists(c)
    \/ RegisterHash(c)
    \/ RegisterCreateUser(c)

SpecLogin == InitLogin /\ [][NextLogin]_vars

(***************************************************************************)
(* Tokens: logins, validateToken on presented tokens, and the clock.       *)
(* A caller presents a token a login returned, or one it made up: a        *)
(* returned token with its claims altered under the old signature, a token *)
(* signed with a secret of its own, or a string that is no token.          *)
(***************************************************************************)
MaxTokenRequests == 2

Forgeries ==
  {[t EXCEPT !.payload.exp = @ + TokenLifetime] : t \in issued}
  \cup
  UNION {{[t EXCEPT !.payload.userId = u.id, !.payload.email = u.email] :
            u \in {v \in users : v.id # t.payload.userId}} : t \in issued}
  \cup
  {jwtSign([userId |-> u.id, email |-> u.email, iat |-> now, exp |-> e], "guessed") :
     u \in users, e \in {now, now + TokenLifetime}}
  \cup
  {[segments |-> 1,
    payload |-> [userId |-> 0, email |-> <<>>, iat |-> 0, exp |-> 0],
    signature |-> HS256(<<>>, "")]}

Presented == issued \cup Forgeries

InitToken ==
  /\ Seeded
  /\ ticks = 0
  /\ budget = MaxTokenRequests
  /\ proc = [c \in Procs |-> Idle]
  /\ Outside

NextToken ==
  \/ \E c \in Procs :
       \/ LoginUser(c, [email |-> EmailAlice, password |-> PasswordOne])
       \/ LoginFindUser(c)
       \/ LoginCompare(c)
       \/ LoginUpdateLastLogin(c)
       \/ \E token \in Presented : ValidateToken(c, token)
  \/ Tick
  \/ Jump

SpecToken == InitToken /\ [][NextToken]_vars

(***************************************************************************)
(* middleware/errorHandler.ts, the last middleware of the application.     *)
(***************************************************************************)
getErrorType(statusCode) ==
  CASE statusCode = 400 -> "Bad Request"
    [] statusCode = 401 -> "Unauthorized"
    [] statusCode = 403 -> "Forbidden"
    [] statusCode = 404 -> "Not Found"
    [] statusCode = 409 -> "Conflict"
    [] statusCode = 429 -> "Too Many Requests"
    [] statusCode = 500 -> "Internal Server Error"
    [] OTHER -> "Error"

\* process.env.NODE_ENV of the modelled deployment
NodeEnv == "development"

\* the response errorHandler sends for an error passed to next(error)
errorHandler(message) ==
  LET statusCode ==
        IF MessageIncludes(message, "Validation failed") THEN 400
        ELSE IF MessageIncludes(message, "Email already exists") THEN 409
        ELSE IF MessageIncludes(message, "Invalid credentials") THEN 401
        ELSE IF \/ MessageIncludes(message, "Token expired")
                \/ MessageIncludes(message, "Invalid token") THEN 401
        ELSE IF MessageIncludes(message, "Unauthorized") THEN 401
        ELSE IF MessageIncludes(message, "Rate limit exceeded") THEN 429
        ELSE 500
  IN [status  |-> statusCode,
      error   |-> getErrorType(statusCode),
      message |-> IF statusCode = 500 /\ NodeEnv = "production"
                    THEN <<"Internal server error">> ELSE message]

(***************************************************************************)
(* middleware/authMiddleware.ts.  An Authorization header is absent, or it *)
(* is its first seven characters and the text after them: nothing, or the  *)
(* text of one token.                                                      *)
(***************************************************************************)
NoHeader == [present |-> FALSE]

BearerPrefix == <<"B", "e", "a", "r", "e", "r", " ">>

\* AuthService.extractTokenFromHeader: null, or authHeader.substring(7)
extractTokenFromHeader(authHeader) ==
  IF ~authHeader.present \/ authHeader.head # BearerPrefix
    THEN [null |-> TRUE]
    ELSE [null |-> FALSE, text |-> authHeader.rest]

\* a middleware that attaches the claims a token carries without verifying it
authMiddleware_TrustClaims(authHeader, clock) ==
  LET token == extractTokenFromHeader(authHeader) IN
  IF token.null \/ token.text = <<>>
    THEN [next |-> FALSE, validated |-> FALSE,
          res |-> [status |-> 401, error |-> "Unauthorized",
                   message |-> <<"Access token is required">>]]
  ELSE [next |-> TRUE, validated |-> FALSE,
        user |-> [userId |-> token.text[1].payload.userId,
                  email  |-> token.text[1].payload.email]]

\* a middleware whose catch block does not tell an expired token apart
authMiddleware_ExpiredAsInvalid(authHeader, clock) ==
  LET token == extractTokenFromHeader(authHeader) IN
  IF token.null \/ token.text = <<>>
    THEN [next |-> FALSE, validated |-> FALSE,
          res |-> [status |-> 401, error |-> "Unauthorized",
                   message |-> <<"Access token is required">>]]
  ELSE LET decoded == validateToken(token.text[1], clock) IN
       IF decoded.ok
         THEN [next |-> TRUE, validated |-> TRUE,
               user |-> [userId |-> decoded.value.userId,
                         email  |-> decoded.value.email]]
       ELSE [next |-> FALSE, validated |-> TRUE,
             res |-> [status |-> 401, error |-> "Invalid token",
                      message |-> <<"Access token is invalid">>]]

\* authMiddleware at clock time `clock`: next() with req.user, or a 401;
\* validated tells whether validateToken was called
authMiddleware(authHeader, clock) ==
  LET token == extractTokenFromHeader(authHeader) IN
  IF token.null \/ token.text = <<>>
    THEN [next |-> FALSE, validated |-> FALSE,
          res |-> [status |-> 401, error |-> "Unauthorized",
                   message |-> <<"Access token is required">>]]
  ELSE LET decoded == validateToken(token.text[1], clock) IN
       IF decoded.ok
         THEN [next |-> TRUE, validated |-> TRUE,
               user |-> [userId |-> decoded.value.userId,
                         email  |-> decoded.value.email]]
       ELSE IF decoded.message = <<"Token expired">>
         THEN [next |-> FALSE, validated |-> TRUE,
               res |-> [status |-> 401, error |-> "Token expired",
                        message |-> <<"Access token has expired. Please login again.">>]]
       ELSE IF decoded.message = <<"Invalid token">>
         THEN [next |-> FALSE, validated |-> TRUE,
               res |-> [status |-> 401, error |-> "Invalid token",
                        message |-> <<"Access token is invalid">>]]
       ELSE [next |-> FALSE, validated |-> TRUE,
             res |-> [status |-> 401, error |-> "Unauthorized",
                      message |-> <<"Token validation failed">>]]

(***************************************************************************)
(* UserRepository.getUserProfile and ProfileService.getUserProfile         *)
(***************************************************************************)
\* the records whose stored triple a getUserProfile(id) hands to
\* decryptSensitiveData
decryptedBy(store, id) == {u.id : u \in findById(store, id)}

(***************************************************************************)
(* ProfileService.logSecureError and its sanitizeErrorMessage.  The text   *)
(* of an error message is a sequence of the fixed texts of the source and, *)
(* where a message quotes data, of the characters of the data; a fixed     *)
(* text belongs to no character class.                                     *)
(***************************************************************************)
HexChars == Digits \cup {"a", "b", "c", "d", "e", "f", "A", "B", "C", "D", "E", "F"}

\* \w of a JavaScript regular expression
WordChars == Letters \cup Digits \cup {"_"}

\* the length of the longest prefix of s whose characters are all in class
RunLength(s, class) ==
  CHOOSE n \in 0..Len(s) : AllIn(s, 1, n, class) /\ (n = Len(s) \/ s[n + 1] \notin class)

Drop(s, n) == SubSeq(s, n + 1, Len(s))

\* message.replace(/[0-9a-fA-F]{32,}/g, '[REDACTED_KEY]')
RECURSIVE redactKeys(_)
redactKeys(s) ==
  IF s = <<>> THEN <<>>
  ELSE LET n == RunLength(s, HexChars) IN
       IF n = 0 THEN <<s[1]>> \o redactKeys(Tail(s))
       ELSE (IF n >= 32 THEN <<"[REDACTED_KEY]">> ELSE SubSeq(s, 1, n))
            \o redactKeys(Drop(s, n))

\* message.replace(/\b\d{12}\b/g, '[REDACTED_ID]'): the words of twelve digits
RECURSIVE redactIds(_)
redactIds(s) ==
  IF s = <<>> THEN <<>>
  ELSE LET n == RunLength(s, WordChars) IN
       IF n = 0 THEN <<s[1]>> \o redactIds(Tail(s))
       ELSE (IF n = 12 /\ AllIn(s, 1, 12, Digits) THEN <<"[REDACTED_ID]">> ELSE SubSeq(s, 1, n))
            \o redactIds(Drop(s, n))

\* the length of the match of /[a-zA-Z0-9._%+-]+@[a-zA-Z0-9.-]+\.[a-zA-Z]{2,}/
\* at the head of s, or 0: the local part, '@', and the domain up to the
\* letters after its last dot that at least two letters follow
emailMatch(s) ==
  LET local == RunLength(s, EmailLocalChars)
      rest == Drop(s, local + 1)
      domain == RunLength(rest, EmailDomainChars)
      dots == {p \in 2..domain : rest[p] = "." /\ RunLength(Drop(rest, p), Letters) >= 2}
  IN
  IF local = 0 \/ local = Len(s) \/ s[local + 1] # "@" \/ dots = {} THEN 0
  ELSE LET dot == CHOOSE p \in dots : \A q \in dots : q <= p IN
       local + 1 + dot + RunLength(Drop(rest, dot), Letters)

\* message.replace(/[a-zA-Z0-9._%+-]+@[a-zA-Z0-9.-]+\.[a-zA-Z]{2,}/g, '[REDACTED_EMAIL]')
RECURSIVE redactEmails(_)
redactEmails(s) ==
  IF s = <<>> THEN <<>>
  ELSE LET n == emailMatch(s)
           local == RunLength(s, EmailLocalChars)
       IN
       IF n > 0 THEN <<"[REDACTED_EMAIL]">> \o redactEmails(Drop(s, n))
       ELSE IF local > 0 THEN SubSeq(s, 1, local) \o redactEmails(Drop(s, local))
       ELSE <<s[1]>> \o redactEmails(Tail(s))

\* ProfileService.sanitizeErrorMessage
sanitizeErrorMessage(message) == redactEmails(redactIds(redactKeys(message)))

\* the line logSecureError writes to console.error
logSecureError(operation, message) ==
  [sink |-> "[SECURE_ERROR_LOG]", operation |-> operation,
   text |-> sanitizeErrorMessage(message)]

\* the line errorHandler writes to console.error
errorHandlerLog(message) == [sink |-> "Error:", text |-> message]

\* UserRepository.getUserProfile: null, the profile, or the error thrown
getUserProfile(store, id, key) ==
  LET found == findById(store, id) IN
  IF found = {} THEN [ok |-> TRUE, found |-> FALSE]
  ELSE LET user == CHOOSE u \in found : TRUE
           decryptedAadhaar ==
             decryptSensitiveData([encryptedData |-> user.aadhaarNumber,
                                   iv            |-> user.aadhaarIv,
                                   authTag       |-> user.aadhaarAuthTag], key)
       IN
       IF ~decryptedAadhaar.ok
         THEN Throw(<<"Failed to decrypt user profile: ">> \o decryptedAadhaar.message)
         ELSE [ok |-> TRUE, found |-> TRUE,
               value |-> [id            |-> user.id,
                          email         |-> user.email,
                          firstName     |-> user.firstName,
                          lastName      |-> user.lastName,
                          aadhaarNumber |-> decryptedAadhaar.value,
                          phone         |-> user.phone,
                          createdAt     |-> user.createdAt,
                          updatedAt     |-> user.updatedAt]]

\* a service that reports every failure of the repository as not found
ProfileService_getUserProfile_AllNotFound(store, userId, key) ==
  LET userProfile == getUserProfile(store, userId, key) IN
  IF userProfile.ok /\ userProfile.found THEN [ok |-> TRUE, value |-> userProfile.value]
  ELSE Throw(<<"User profile not found">>)

\* ProfileService.getUserProfile: the profile, or the error thrown
ProfileService_getUserProfile(store, userId, key) ==
  LET userProfile == getUserProfile(store, userId, key) IN
  IF userProfile.ok /\ userProfile.found THEN [ok |-> TRUE, value |-> userProfile.value]
  ELSE LET message == IF userProfile.ok THEN <<"User profile not found">>
                                        ELSE userProfile.message
       IN
       IF message = <<"User profile not found">> THEN Throw(message)
       ELSE IF MessageIncludes(message, "Failed to decrypt")
         THEN Throw(<<"Profile data decryption failed">>)
       ELSE Throw(<<"Failed to retrieve user profile">>)

\* what a failing GET /api/profile writes to console.error: the service logs
\* the error it caught, and errorHandler the error the route passes on;
\* caught is the error inside the service, thrown the one that leaves it
getProfileLogs(caught, thrown) ==
  <<logSecureError("profile_retrieval_failed", caught)>>
  \o (IF thrown \in {<<"User profile not found">>, <<"Profile data decryption failed">>}
        THEN <<>> ELSE <<errorHandlerLog(thrown)>>)

(***************************************************************************)
(* GET /api/profile                                                        *)
(***************************************************************************)
\* the response of the route for the outcome of the service call
getProfileResponse(userProfile) ==
  IF userProfile.ok THEN [status |-> 200, user |-> userProfile.value]
  ELSE IF userProfile.message = <<"User profile not found">>
    THEN [status |-> 404, error |-> "Not Found",
          message |-> <<"User profile not found">>]
  ELSE IF userProfile.message = <<"Profile data decryption failed">>
    THEN [status |-> 500, error |-> "Internal Server Error",
          message |-> <<"Unable to retrieve profile data">>]
  ELSE errorHandler(userProfile.message)

\* authMiddleware, then the route up to its await: findUserById is sent
GetProfile(c, authHeader) ==
  LET mw == authMiddleware(authHeader, now)
      begun == [op |-> "getProfile", arg |-> authHeader, at |-> now, decrypted |-> {},
                validated |-> mw.validated]
  IN
  /\ CanBegin(c)
  /\ budget' = budget - 1
  /\ proc' = [proc EXCEPT ![c] =
       IF ~mw.next
         THEN begun @@ [pc |-> "done", calls |-> <<>>, res |-> mw.res]
         ELSE begun @@ [pc |-> "findUserById", calls |-> <<"getUserProfile">>,
                        user |-> mw.user]]
  /\ UNCHANGED <<users, nextId, rnd, now, ticks, encKey, issued, plain, edge>>

\* the store answers findUserById; the triple is decrypted and the route
\* responds
GetProfileFindUserById(c) ==
  LET userId == proc[c].user.userId
      repository == getUserProfile(users, userId, encKey)
      service == ProfileService_getUserProfile(users, userId, encKey)
  IN
  /\ proc[c].op = "getProfile" /\ proc[c].pc = "findUserById"
  /\ proc' = [proc EXCEPT ![c] =
       [@ EXCEPT !.pc = "done", !.decrypted = decryptedBy(users, userId)] @@
       [res  |-> getProfileResponse(service),
        logs |-> IF service.ok THEN <<>>
                 ELSE getProfileLogs(IF repository.ok THEN <<"User profile not found">>
                                                      ELSE repository.message,
                                     service.message)]]
  /\ UNCHANGED <<users, nextId, rnd, now, ticks, encKey, issued, plain, budget, edge>>

(***************************************************************************)
(* ProfileService.updateUserProfile and UserRepository.updateUserProfile.  *)
(* Update data is a record of the fields that are not undefined.           *)
(***************************************************************************)
Has(data, field) == field \in DOMAIN data

\* the validation at the head of ProfileService.updateUserProfile
validateUpdateData(updateData) ==
  IF Has(updateData, "firstName") /\ Len(trim(updateData.firstName)) = 0
    THEN Throw(<<"First name cannot be empty">>)
  ELSE IF Has(updateData, "lastName") /\ Len(trim(updateData.lastName)) = 0
    THEN Throw(<<"Last name cannot be empty">>)
  ELSE IF /\ Has(updateData, "phone") /\ Len(trim(updateData.phone)) > 0
          /\ ~validatePhone(updateData.phone)
    THEN Throw(<<"Invalid phone number format">>)
  ELSE IF /\ Has(updateData, "aadhaarNumber") /\ Len(trim(updateData.aadhaarNumber)) > 0
          /\ ~validateAadhaar(updateData.aadhaarNumber)
    THEN Throw(<<"Aadhaar number must be exactly 12 digits">>)
  ELSE [ok |-> TRUE]

\* an update document that replaces the ciphertext and keeps the stored iv
\* and authTag
updateFields_CiphertextOnly(updateData, key, iv, date) ==
  LET encryptionResult ==
        IF Has(updateData, "aadhaarNumber")
          THEN encryptSensitiveData(updateData.aadhaarNumber, key, iv)
          ELSE [ok |-> TRUE]
      names == (DOMAIN updateData \cap {"firstName", "lastName", "phone", "aadhaarNumber"})
               \cup {"updatedAt"}
  IN
  IF ~encryptionResult.ok
    THEN Throw(<<"Failed to update user profile: ">> \o encryptionResult.message)
    ELSE [ok |-> TRUE,
          value |-> [f \in names |->
                       CASE f = "aadhaarNumber"  -> encryptionResult.value.encryptedData
                         [] f = "updatedAt"      -> date
                         [] OTHER                -> updateData[f]]]

\* UserRepository.updateUserProfile up to its await: the update document,
\* or the error of the encryption
updateFields(updateData, key, iv, date) ==
  LET encryptionResult ==
        IF Has(updateData, "aadhaarNumber")
          THEN encryptSensitiveData(updateData.aadhaarNumber, key, iv)
          ELSE [ok |-> TRUE]
      names == (DOMAIN updateData \cap {"firstName", "lastName", "phone"})
               \cup (IF Has(updateData, "aadhaarNumber")
                       THEN {"aadhaarNumber", "aadhaarIv", "aadhaarAuthTag"} ELSE {})
               \cup {"updatedAt"}
  IN
  IF ~encryptionResult.ok
    THEN Throw(<<"Failed to update user profile: ">> \o encryptionResult.message)
    ELSE [ok |-> TRUE,
          value |-> [f \in names |->
                       CASE f = "aadhaarNumber"  -> encryptionResult.value.encryptedData
                         [] f = "aadhaarIv"      -> encryptionResult.value.iv
                         [] f = "aadhaarAuthTag" -> encryptionResult.value.authTag
                         [] f = "updatedAt"      -> date
                         [] OTHER                -> updateData[f]]]

\* the schema setters a query applies to the update document
castUpdate(fields) ==
  [f \in DOMAIN fields |->
     IF f \in {"firstName", "lastName", "phone"} THEN trim(fields[f]) ELSE fields[f]]

\* runValidators: the required validators of the updated string paths
updateValid(fields) ==
  \A f \in DOMAIN fields \cap {"firstName", "lastName", "phone"} : Len(fields[f]) > 0

\* UserModel.findByIdAndUpdate(id, updateFields, {new, runValidators}): the
\* error thrown, null, or the store after the update
findByIdAndUpdate(store, id, fields) ==
  LET cast == castUpdate(fields) IN
  IF ~updateValid(cast)
    THEN Throw(<<"Failed to update user profile: ", "Validation failed: ",
                 "Path is required.">>)
  ELSE IF findById(store, id) = {} THEN [ok |-> TRUE, found |-> FALSE]
  ELSE [ok |-> TRUE, found |-> TRUE,
        store |-> {IF u.id = id
                     THEN [f \in DOMAIN u |-> IF f \in DOMAIN cast THEN cast[f] ELSE u[f]]
                     ELSE u : u \in store}]

(***************************************************************************)
(* PUT /api/profile                                                        *)
(***************************************************************************)
\* !value for a body field: undefined or the empty string
Falsy(body, field) == ~Has(body, field) \/ Len(body[field]) = 0

\* the response of the route for the outcome of the service call
updateProfileResponse(updatedProfile) ==
  IF updatedProfile.ok
    THEN [status |-> 200, message |-> <<"Profile updated successfully">>,
          user |-> updatedProfile.value]
  ELSE IF updatedProfile.message = <<"User profile not found">>
    THEN [status |-> 404, error |-> "Not Found",
          message |-> <<"User profile not found">>]
  ELSE IF MessageIncludes(updatedProfile.message, "validation")
    THEN [status |-> 400, error |-> "Bad Request", message |-> updatedProfile.message]
  ELSE errorHandler(updatedProfile.message)

\* what a failing PUT /api/profile writes to console.error: the service logs
\* the error and throws it on as it is; errorHandler logs it when the route
\* passes it on
updateProfileLogs(message) ==
  <<logSecureError("profile_update_failed", message)>>
  \o (IF message = <<"User profile not found">> \/ MessageIncludes(message, "validation")
        THEN <<>> ELSE <<errorHandlerLog(message)>>)

\* a route that hands the whole request body to the update
UpdateProfile_WholeBody(c, authHeader, body) ==
  LET mw == authMiddleware(authHeader, now)
      updateData == [f \in DOMAIN body \cap {"firstName", "lastName", "phone", "aadhaarNumber"}
                       |-> body[f]]
      checked == validateUpdateData(updateData)
      built == updateFields(updateData, encKey, rnd, now)
      begun == [op |-> "updateProfile", arg |-> authHeader, body |-> body,
                at |-> now, decrypted |-> {}, validated |-> mw.validated]
  IN
  /\ CanBegin(c)
  /\ budget' = budget - 1
  /\ IF ~mw.next
       THEN /\ proc' = [proc EXCEPT ![c] =
                 begun @@ [pc |-> "done", calls |-> <<>>, res |-> mw.res]]
            /\ rnd' = rnd
     ELSE IF Falsy(body, "firstName") \/ Falsy(body, "lastName")
       THEN /\ proc' = [proc EXCEPT ![c] =
                 begun @@ [pc |-> "done", calls |-> <<>>, user |-> mw.user,
                           res |-> [status |-> 400, error |-> "Bad Request",
                                    message |-> <<"First name and last name are required">>]]]
            /\ rnd' = rnd
     ELSE IF ~checked.ok \/ ~built.ok
       THEN /\ proc' = [proc EXCEPT ![c] =
                 begun @@ [pc |-> "done", calls |-> <<"updateUserProfile">>, user |-> mw.user,
                           res |-> updateProfileResponse(IF ~checked.ok THEN checked ELSE built),
                           logs |-> updateProfileLogs(IF ~checked.ok THEN checked.message
                                                                     ELSE built.message)]]
            /\ rnd' = rnd
     ELSE /\ proc' = [proc EXCEPT ![c] =
               begun @@ [pc |-> "findByIdAndUpdate", calls |-> <<"updateUserProfile">>,
                         user |-> mw.user,
                         loc |-> built.value @@
                                 [f \in DOMAIN body \ DOMAIN updateData |-> body[f]]]]
          /\ rnd' = IF Has(updateData, "aadhaarNumber") THEN rnd + 1 ELSE rnd
  /\ UNCHANGED <<users, nextId, now, ticks, encKey, issued, plain, edge>>

\* authMiddleware, then the route and both updateUserProfile methods up to
\* the await of findByIdAndUpdate
UpdateProfile(c, authHeader, body) ==
  LET mw == authMiddleware(authHeader, now)
      updateData == [f \in DOMAIN body \cap {"firstName", "lastName", "phone", "aadhaarNumber"}
                       |-> body[f]]
      checked == validateUpdateData(updateData)
      built == updateFields(updateData, encKey, rnd, now)
      begun == [op |-> "updateProfile", arg |-> authHeader, body |-> body,
                at |-> now, decrypted |-> {}, validated |-> mw.validated]
  IN
  /\ CanBegin(c)
  /\ budget' = budget - 1
  /\ IF ~mw.next
       THEN /\ proc' = [proc EXCEPT ![c] =
                 begun @@ [pc |-> "done", calls |-> <<>>, res |-> mw.res]]
            /\ rnd' = rnd
     ELSE IF Falsy(body, "firstName") \/ Falsy(body, "lastName")
       THEN /\ proc' = [proc EXCEPT ![c] =
                 begun @@ [pc |-> "done", calls |-> <<>>, user |-> mw.user,
                           res |-> [status |-> 400, error |-> "Bad Request",
                                    message |-> <<"First name and last name are required">>]]]
            /\ rnd' = rnd
     ELSE IF ~checked.ok \/ ~built.ok
       THEN /\ proc' = [proc EXCEPT ![c] =
                 begun @@ [pc |-> "done", calls |-> <<"updateUserProfile">>, user |-> mw.user,
                           res |-> updateProfileResponse(IF ~checked.ok THEN checked ELSE built),
                           logs |-> updateProfileLogs(IF ~checked.ok THEN checked.message
                                                                     ELSE built.message)]]
            /\ rnd' = rnd
     ELSE /\ proc' = [proc EXCEPT ![c] =
               begun @@ [pc |-> "findByIdAndUpdate", calls |-> <<"updateUserProfile">>,
                         user |-> mw.user, loc |-> built.value]]
          /\ rnd' = IF Has(updateData, "aadhaarNumber") THEN rnd + 1 ELSE rnd
  /\ UNCHANGED <<users, nextId, now, ticks, encKey, issued, plain, edge>>

\* the store serves findByIdAndUpdate; on success the refresh query of
\* getUserProfile is sent
UpdateProfileFindByIdAndUpdate(c) ==
  LET userId == proc[c].user.userId
      updatedUser == findByIdAndUpdate(users, userId, proc[c].loc)
  IN
  /\ proc[c].op = "updateProfile" /\ proc[c].pc = "findByIdAndUpdate"
  /\ IF updatedUser.ok /\ updatedUser.found
       THEN /\ users' = updatedUser.store
            /\ plain' = IF Has(proc[c].body, "aadhaarNumber")
                          THEN [plain EXCEPT ![userId].aadhaarNumber = proc[c].body.aadhaarNumber]
                          ELSE plain
            /\ proc' = [proc EXCEPT ![c] =
                 [@ EXCEPT !.pc = "refresh"] @@ [written |-> DOMAIN proc[c].loc]]
       ELSE /\ UNCHANGED <<users, plain>>
            /\ proc' = [proc EXCEPT ![c] =
                 [@ EXCEPT !.pc = "done"] @@
                 [res |-> updateProfileResponse(
                            IF updatedUser.ok THEN Throw(<<"User profile not found">>)
                                              ELSE updatedUser),
                  logs |-> updateProfileLogs(IF updatedUser.ok THEN <<"User profile not found">>
                                                               ELSE updatedUser.message)]]
  /\ UNCHANGED <<nextId, rnd, now, ticks, encKey, issued, budget, edge>>

\* the store answers the findUserById of the refresh; the triple is
\* decrypted and the route responds
UpdateProfileRefresh(c) ==
  LET userId == proc[c].user.userId
      refreshed == getUserProfile(users, userId, encKey)
      updatedProfile ==
        IF ~refreshed.ok THEN Throw(<<"Failed to update user profile: ">> \o refreshed.message)
        ELSE IF ~refreshed.found THEN Throw(<<"User profile not found">>)
        ELSE [ok |-> TRUE, value |-> refreshed.value]
  IN
  /\ proc[c].op = "updateProfile" /\ proc[c].pc = "refresh"
  /\ proc' = [proc EXCEPT ![c] =
       [@ EXCEPT !.pc = "done", !.decrypted = decryptedBy(users, userId)] @@
       [res  |-> updateProfileResponse(updatedProfile),
        logs |-> IF updatedProfile.ok THEN <<>> ELSE updateProfileLogs(updatedProfile.message)]]
  /\ UNCHANGED <<users, nextId, rnd, now, ticks, encKey, issued, plain, budget, edge>>

(***************************************************************************)
(* Profiles: logins, GET and PUT /api/profile with presented headers, and  *)
(* the clock, over the seeded store.                                       *)
(***************************************************************************)
MaxProfileRequests == 2

\* "bearer ": the scheme in the wrong letter case
LowerPrefix == <<"b", "e", "a", "r", "e", "r", " ">>

\* the headers a caller may send: none, the scheme alone, a returned token under the right or
\* the wrong scheme, a returned token with its subject swapped under the old
\* signature, and a token for a user signed with a secret of the caller's
Headers ==
  {NoHeader, [present |-> TRUE, head |-> BearerPrefix, rest |-> <<>>]}
  \cup {[present |-> TRUE, head |-> prefix, rest |-> <<t>>] :
          prefix \in {BearerPrefix, LowerPrefix}, t \in issued}
  \cup UNION {{[present |-> TRUE, head |-> BearerPrefix,
                rest |-> <<[t EXCEPT !.payload.userId = u.id, !.payload.email = u.email]>>] :
                 u \in {v \in users : v.id # t.payload.userId}} : t \in issued}
  \cup {[present |-> TRUE, head |-> BearerPrefix,
         rest |-> <<jwtSign([userId |-> 2, email |-> EmailBob, iat |-> now,
                             exp |-> now + TokenLifetime], "guessed")>>]}

UpdateBodies ==
  { [firstName |-> <<"A", "l", "i">>, lastName |-> <<"L", "i">>,
     phone |-> PhonePlus, aadhaarNumber |-> AadhaarTwo],
    [firstName |-> <<"A", "l">>],
    [firstName |-> <<"A", "l">>, lastName |-> <<"L", "i">>, phone |-> PhoneBlank] }

InitProfile ==
  /\ Seeded
  /\ ticks = 0
  /\ budget = MaxProfileRequests
  /\ proc = [c \in Procs |-> Idle]
  /\ Outside

NextProfile ==
  \/ \E c \in Procs :
       \/ LoginUser(c, [email |-> EmailAlice, password |-> PasswordOne])
       \/ LoginFindUser(c)
       \/ LoginCompare(c)
       \/ LoginUpdateLastLogin(c)
       \/ \E authHeader \in Headers : GetProfile(c, authHeader)
       \/ GetProfileFindUserById(c)
       \/ \E authHeader \in Headers : \E body \in UpdateBodies :
            UpdateProfile(c, authHeader, body)
       \/ UpdateProfileFindByIdAndUpdate(c)
       \/ UpdateProfileRefresh(c)
  \/ Jump

SpecProfile == InitProfile /\ [][NextProfile]_vars

(***************************************************************************)
(* Sessions: GET and PUT /api/profile by two logged-in users, and a        *)
(* registration, over the seeded store.  The initial state is the one      *)
(* SpecLogin reaches when Alice and Bob have logged in at time 0           *)
(* (LoggedInIsReachable).                                                  *)
(***************************************************************************)
MaxSessionRequests == 3

AliceToken ==
  jwtSign([userId |-> 1, email |-> EmailAlice, iat |-> 0, exp |-> TokenLifetime], JwtSecret)

BobToken ==
  jwtSign([userId |-> 2, email |-> EmailBob, iat |-> 0, exp |-> TokenLifetime], JwtSecret)

LoggedIn ==
  /\ users = {seed(Alice, 1, 1, 2, 0), seed(Bob, 2, 3, 4, 0)}
  /\ nextId = 3
  /\ rnd = 5
  /\ now = 0
  /\ encKey = "k1"
  /\ issued = {AliceToken, BobToken}
  /\ plain = (1 :> [password |-> Alice.password, aadhaarNumber |-> Alice.aadhaarNumber])
          @@ (2 :> [password |-> Bob.password, aadhaarNumber |-> Bob.aadhaarNumber])

LoggedInIsReachable == LoggedIn /\ \A c \in Procs : Free(c)

\* 'Bearer ' + token
Bearer(token) == [present |-> TRUE, head |-> BearerPrefix, rest |-> <<token>>]

SessionBodies ==
  { [firstName |-> <<"A", "l", "i">>, lastName |-> <<"L", "i">>,
     phone |-> PhonePlus, aadhaarNumber |-> AadhaarTwo],
    [firstName |-> <<"A", "l">>, lastName |-> <<"L", "i">>, aadhaarNumber |-> AadhaarSpaced],
    [firstName |-> <<"A", "l", " ">>, lastName |-> <<"L", "i">>] }

InitSession ==
  /\ LoggedIn
  /\ ticks = 0
  /\ budget = MaxSessionRequests
  /\ proc = [c \in Procs |-> Idle]
  /\ Outside

NextSession ==
  \E c \in Procs :
    \/ \E token \in issued : GetProfile(c, Bearer(token))
    \/ GetProfileFindUserById(c)
    \/ \E token \in issued : \E body \in SessionBodies : UpdateProfile(c, Bearer(token), body)
    \/ UpdateProfileFindByIdAndUpdate(c)
    \/ UpdateProfileRefresh(c)
    \/ RegisterUser(c, Carol)
    \/ RegisterEmailExists(c)
    \/ RegisterHash(c)
    \/ RegisterCreateUser(c)

SpecSession == InitSession /\ [][NextSession]_vars

(***************************************************************************)
(* AuthService.verifyUserPassword and POST /api/profile/verify-password    *)
(***************************************************************************)
\* the catch block of verifyUserPassword: every error leaves as one error
verifyCatch(message) == Throw(<<"Password verification failed">>)

\* the response of the route for the outcome of verifyUserPassword
verifyPasswordResponse(isValid) ==
  IF isValid.ok
    THEN IF ~isValid.value
           THEN [status |-> 401, error |-> "Unauthorized",
                 message |-> <<"Incorrect password. Please try again.">>]
           ELSE [status |-> 200, message |-> <<"Password verified successfully">>,
                 verified |-> TRUE]
  ELSE IF isValid.message = <<"User not found">>
    THEN [status |-> 404, error |-> "Not Found", message |-> <<"User not found">>]
  ELSE errorHandler(isValid.message)

\* authMiddleware, then the route up to the await of findUserById
VerifyPassword(c, authHeader, body) ==
  LET mw == authMiddleware(authHeader, now)
      begun == [op |-> "verifyPassword", arg |-> authHeader, body |-> body,
                at |-> now, decrypted |-> {}, validated |-> mw.validated]
  IN
  /\ CanBegin(c)
  /\ budget' = budget - 1
  /\ proc' = [proc EXCEPT ![c] =
       IF ~mw.next
         THEN begun @@ [pc |-> "done", calls |-> <<>>, res |-> mw.res]
       ELSE IF Falsy(body, "password")
         THEN begun @@ [pc |-> "done", calls |-> <<>>, user |-> mw.user,
                        res |-> [status |-> 400, error |-> "Bad Request",
                                 message |-> <<"Password is required">>]]
       ELSE begun @@ [pc |-> "findUserById", calls |-> <<"verifyUserPassword">>,
                      user |-> mw.user]]
  /\ UNCHANGED <<users, nextId, rnd, now, ticks, encKey, issued, plain, edge>>

\* the store answers findUserById; for a user bcrypt.compare is started
VerifyPasswordFindUserById(c) ==
  LET found == findById(users, proc[c].user.userId) IN
  /\ proc[c].op = "verifyPassword" /\ proc[c].pc = "findUserById"
  /\ proc' = [proc EXCEPT ![c] =
       IF found = {}
         THEN [@ EXCEPT !.pc = "done"] @@
              [found |-> FALSE,
               res |-> verifyPasswordResponse(verifyCatch(<<"User not found">>))]
         ELSE [@ EXCEPT !.pc = "compare"] @@
              [found |-> TRUE, record |-> CHOOSE u \in found : TRUE]]
  /\ UNCHANGED <<users, nextId, rnd, now, ticks, encKey, issued, plain, budget, edge>>

\* bcrypt.compare resolves and the route responds
VerifyPasswordCompare(c) ==
  /\ proc[c].op = "verifyPassword" /\ proc[c].pc = "compare"
  /\ proc' = [proc EXCEPT ![c] =
       [@ EXCEPT !.pc = "done"] @@
       [res |-> verifyPasswordResponse(
                  [ok |-> TRUE,
                   value |-> bcryptCompare(proc[c].body.password, proc[c].record.password)])]]
  /\ UNCHANGED <<users, nextId, rnd, now, ticks, encKey, issued, plain, budget, edge>>

\* bodies of verify-password requests: a password, or none
VerifyBodies == {[password |-> PasswordOne], [password |-> PasswordTwo], <<>>}

(***************************************************************************)
(* Stored data: GET /api/profile and POST /api/profile/verify-password by  *)
(* two logged-in users over a store as                                     *)
(* another deployment or an operator may have left it: a record removed,   *)
(* a triple written under another key, altered in one component, or with   *)
(* an empty component; and a server started with this key, another key,    *)
(* or none.                                                                *)
(***************************************************************************)
MaxStoredRequests == 2

\* what a stored record may have become outside the application
Corruptions(u) ==
  { u,
    [u EXCEPT !.aadhaarNumber.of.plaintext = toUtf8(AadhaarTwo)],
    [u EXCEPT !.aadhaarIv.of = @ + 1],
    [u EXCEPT !.aadhaarAuthTag.of.aad = "other"],
    [u EXCEPT !.aadhaarNumber = EmptyData],
    [u EXCEPT !.aadhaarIv = EmptyIv],
    [u EXCEPT !.aadhaarAuthTag = EmptyTag] }

\* bodies of PUT /api/profile: a valid one, and ones with a blank first
\* name, a short phone, a blank phone, a short, a blank and an empty Aadhaar
\* number
UpdateAttempts ==
  { [firstName |-> <<"A", "l", "i">>, lastName |-> <<"L", "i">>,
     phone |-> PhonePlus, aadhaarNumber |-> AadhaarTwo],
    [firstName |-> <<" ">>, lastName |-> <<"L", "i">>],
    [firstName |-> <<"A", "l">>, lastName |-> <<"L", "i">>, phone |-> PhoneShort],
    [firstName |-> <<"A", "l">>, lastName |-> <<"L", "i">>, phone |-> PhoneBlank],
    [firstName |-> <<"A", "l">>, lastName |-> <<"L", "i">>, aadhaarNumber |-> AadhaarShort],
    [firstName |-> <<"A", "l">>, lastName |-> <<"L", "i">>, aadhaarNumber |-> <<" ", " ">>],
    [firstName |-> <<"A", "l">>, lastName |-> <<"L", "i">>, aadhaarNumber |-> <<>>] }

InitStored ==
  /\ \E alice \in SUBSET Corruptions(seed(Alice, 1, 1, 2, 0)) :
     \E bob \in SUBSET {seed(Bob, 2, 3, 4, 0)} :
       /\ Cardinality(alice) <= 1
       /\ users = alice \cup bob
  /\ nextId = 3
  /\ rnd = 5
  /\ now = 0
  /\ ticks = 0
  /\ encKey \in {"k1", "k2", NoKey}
  /\ issued = {AliceToken, BobToken}
  /\ plain = (1 :> [password |-> Alice.password, aadhaarNumber |-> Alice.aadhaarNumber])
          @@ (2 :> [password |-> Bob.password, aadhaarNumber |-> Bob.aadhaarNumber])
  /\ budget = MaxStoredRequests
  /\ proc = [c \in Procs |-> Idle]
  /\ Outside

NextStored ==
  \E c \in Procs :
    \/ \E token \in issued : GetProfile(c, Bearer(token))
    \/ GetProfileFindUserById(c)
    \/ \E token \in issued : \E body \in VerifyBodies : VerifyPassword(c, Bearer(token), body)
    \/ VerifyPasswordFindUserById(c)
    \/ VerifyPasswordCompare(c)

SpecStored == InitStored /\ [][NextStored]_vars

(***************************************************************************)
(* Updates: PUT and GET /api/profile by two logged-in users, with valid    *)
(* and invalid bodies, over the seeded store or that store with Alice's    *)
(* record removed.                                                         *)
(***************************************************************************)
MaxUpdateRequests == 2

InitUpdate ==
  /\ users \in {{seed(Alice, 1, 1, 2, 0), seed(Bob, 2, 3, 4, 0)}, {seed(Bob, 2, 3, 4, 0)}}
  /\ nextId = 3
  /\ rnd = 5
  /\ now = 0
  /\ ticks = 0
  /\ encKey = "k1"
  /\ issued = {AliceToken, BobToken}
  /\ plain = (1 :> [password |-> Alice.password, aadhaarNumber |-> Alice.aadhaarNumber])
          @@ (2 :> [password |-> Bob.password, aadhaarNumber |-> Bob.aadhaarNumber])
  /\ budget = MaxUpdateRequests
  /\ proc = [c \in Procs |-> Idle]
  /\ Outside

NextUpdate ==
  \E c \in Procs :
    \/ \E token \in issued : \E body \in UpdateAttempts : UpdateProfile(c, Bearer(token), body)
    \/ UpdateProfileFindByIdAndUpdate(c)
    \/ UpdateProfileRefresh(c)
    \/ \E token \in issued : GetProfile(c, Bearer(token))
    \/ GetProfileFindUserById(c)

SpecUpdate == InitUpdate /\ [][NextUpdate]_vars

(***************************************************************************)
(* The encryption service called directly, as its property tests call it:  *)
(* a caller encrypts a string, then hands decryptSensitiveData the triple  *)
(* it got, or an alteration of it; ENCRYPTION_KEY, which the service reads *)
(* at every call, may be reassigned in between.                            *)
(***************************************************************************)
MaxCryptoCalls == 3

Keys == {"k1", "k2"}

\* strings given to encrypt: ASCII, digits, white space, an astral character
\* as its surrogate pair, U+FFFD itself, a lone high and a lone low
\* surrogate, and the empty string
Plaintexts ==
  { <<"a">>, AadhaarOne, <<" ">>,
    <<"a", HighSurrogate, LowSurrogate>>,
    <<Replacement>>,
    <<"a", HighSurrogate>>,
    <<LowSurrogate, "a">>,
    <<>> }

\* no surrogate of s is without its other half
WellFormed(s) == fromUtf8(toUtf8(s)) = s

\* 'invalid_hex' and 'invalid_hex_data': no hex digit before the first other
\* character
InvalidHex(text) == [of |-> text.of, bytes |-> 0, form |-> "junk"]

\* what triple t may be turned into before it is handed to decrypt; other
\* is a triple of another encrypt call
Alterations(t, other) ==
  { t,
    \* a component missing
    [t EXCEPT !.encryptedData = EmptyData],
    [t EXCEPT !.iv = EmptyIv],
    [t EXCEPT !.authTag = EmptyTag],
    \* a component that is not hex
    [t EXCEPT !.encryptedData = InvalidHex(@)],
    [t EXCEPT !.iv = InvalidHex(@)],
    [t EXCEPT !.authTag = InvalidHex(@)],
    \* a byte flipped
    [t EXCEPT !.encryptedData.of.plaintext = <<"flipped">> \o Tail(@)],
    [t EXCEPT !.iv.of = @ + 100],
    [t EXCEPT !.authTag.of.aad = "flipped"],
    \* a component of another triple
    [t EXCEPT !.encryptedData = other.encryptedData],
    [t EXCEPT !.iv = other.iv],
    [t EXCEPT !.authTag = other.authTag],
    \* trailing bytes cut off
    [t EXCEPT !.encryptedData.bytes = @ - 1],
    [t EXCEPT !.iv.bytes = 12],
    [t EXCEPT !.authTag.bytes = 15],
    [t EXCEPT !.authTag.bytes = 4],
    [t EXCEPT !.authTag.bytes = 3],
    \* the same bytes spelt otherwise
    [t EXCEPT !.iv.form = "upper"],
    [t EXCEPT !.authTag.form = "upper"],
    [t EXCEPT !.authTag.form = "junk"] }

\* encryptionService.encryptSensitiveData(plaintext)
Encrypt(c, plaintext) ==
  /\ CanBegin(c)
  /\ budget' = budget - 1
  /\ rnd' = rnd + 1
  /\ proc' = [proc EXCEPT ![c] =
       [op |-> "encrypt", pc |-> "done", plaintext |-> plaintext, madeUnder |-> encKey,
        made |-> encryptSensitiveData(plaintext, encKey, rnd)]]
  /\ UNCHANGED <<users, nextId, now, ticks, encKey, issued, plain, edge>>

\* c holds the triple of its last encrypt call
Holds(c) == proc[c].op \in {"encrypt", "decrypt"} /\ proc[c].made.ok

\* the triples c can hand to decrypt: its own, altered or not
Given(c) ==
  IF Holds(c)
    THEN UNION { Alterations(proc[c].made.value, proc[d].made.value) :
                 d \in {e \in Procs : Holds(e)} }
    ELSE {}

\* encryptionService.decryptSensitiveData(given)
Decrypt(c, given) ==
  /\ CanBegin(c)
  /\ given \in Given(c)
  /\ budget' = budget - 1
  /\ proc' = [proc EXCEPT ![c] =
       [op |-> "decrypt", pc |-> "done", plaintext |-> proc[c].plaintext,
        made |-> proc[c].made, madeUnder |-> proc[c].madeUnder,
        given |-> given, key |-> encKey,
        result |-> decryptSensitiveData(given, encKey)]]
  /\ UNCHANGED <<users, nextId, rnd, now, ticks, encKey, issued, plain, edge>>

\* process.env.ENCRYPTION_KEY = key
SetEncryptionKey(key) ==
  /\ key # encKey
  /\ encKey' = key
  /\ UNCHANGED <<users, nextId, rnd, now, ticks, issued, plain, budget, proc, edge>>

InitCrypto ==
  /\ users = {}
  /\ nextId = 1
  /\ rnd = 1
  /\ now = 0
  /\ ticks = 0
  /\ encKey \in Keys
  /\ issued = {}
  /\ plain = <<>>
  /\ budget = MaxCryptoCalls
  /\ proc = [c \in Procs |-> Idle]
  /\ Outside

NextCrypto ==
  \/ \E c \in Procs : \E plaintext \in Plaintexts : Encrypt(c, plaintext)
  \/ \E c \in Procs : \E given \in Given(c) : Decrypt(c, given)
  \/ \E key \in Keys \cup {NoKey} : SetEncryptionKey(key)

SpecCrypto == InitCrypto /\ [][NextCrypto]_vars

(***************************************************************************)
(* The whole API: registrations, logins, GET and PUT /api/profile and      *)
(* POST /api/profile/verify-password by two logged-in users over the       *)
(* seeded store.                                                           *)
(***************************************************************************)
MaxApiRequests == 2

ApiRegistrations == {Carol, AliceAgain, [Carol EXCEPT !.password = PasswordShort]}

ApiLogins ==
  { [email |-> EmailAlice, password |-> PasswordOne],
    [email |-> EmailAlice, password |-> PasswordTwo],
    [email |-> EmailCarol, password |-> PasswordTwo] }

\* bodies of PUT /api/profile: a full one, one that also names an email, an
\* id and a password, and one with a blank first name
ApiBodies ==
  { [firstName |-> <<"A", "l", "i">>, lastName |-> <<"L", "i">>,
     phone |-> PhonePlus, aadhaarNumber |-> AadhaarTwo],
    [firstName |-> <<"A", "l", "i">>, lastName |-> <<"L", "i">>,
     email |-> EmailCarol, id |-> 2, password |-> PasswordTwo],
    [firstName |-> <<" ">>, lastName |-> <<"L", "i">>] }

InitApi ==
  /\ LoggedIn
  /\ ticks = 0
  /\ budget = MaxApiRequests
  /\ proc = [c \in Procs |-> Idle]
  /\ Outside

NextApi ==
  \E c \in Procs :
    \/ \E userData \in ApiRegistrations : RegisterUser(c, userData)
    \/ RegisterEmailExists(c)
    \/ RegisterHash(c)
    \/ RegisterCreateUser(c)
    \/ \E credentials \in ApiLogins : LoginUser(c, credentials)
    \/ LoginFindUser(c)
    \/ LoginCompare(c)
    \/ LoginUpdateLastLogin(c)
    \/ \E token \in {AliceToken, BobToken} : GetProfile(c, Bearer(token))
    \/ GetProfileFindUserById(c)
    \/ \E token \in {AliceToken, BobToken} : \E body \in ApiBodies :
         UpdateProfile(c, Bearer(token), body)
    \/ UpdateProfileFindByIdAndUpdate(c)
    \/ UpdateProfileRefresh(c)
    \/ \E body \in VerifyBodies : VerifyPassword(c, Bearer(AliceToken), body)
    \/ VerifyPasswordFindUserById(c)
    \/ VerifyPasswordCompare(c)

SpecApi == InitApi /\ [][NextApi]_vars

(***************************************************************************)
(* Logs: GET and PUT /api/profile by two logged-in users over a store that *)
(* may also reject a query, with an error message of the driver's, as the  *)
(* mocked repository of the logging test does.                             *)
(***************************************************************************)
MaxLogRequests == 2

\* messages of errors the store rejects a query with: one without data, one
\* that quotes a 12-digit number and one that quotes an email address
StoreErrors ==
  { <<"connection timed out">>,
    <<"Decryption failed for ">> \o AadhaarOne,
    <<"dup key: { email: ", "\"">> \o EmailAlice \o <<"\"", " }">> }

\* the findById of getUserProfile rejects: findUserById wraps the error, the
\* service logs it and throws its own
GetProfileRepositoryRejects(c, message) ==
  LET caught == <<"Failed to find user: ">> \o message
      thrown == IF MessageIncludes(caught, "Failed to decrypt")
                  THEN <<"Profile data decryption failed">>
                  ELSE <<"Failed to retrieve user profile">>
  IN
  /\ proc[c].op = "getProfile" /\ proc[c].pc = "findUserById"
  /\ proc' = [proc EXCEPT ![c] =
       [@ EXCEPT !.pc = "done"] @@
       [res  |-> getProfileResponse(Throw(thrown)),
        logs |-> getProfileLogs(caught, thrown)]]
  /\ UNCHANGED <<users, nextId, rnd, now, ticks, encKey, issued, plain, budget, edge>>

\* findByIdAndUpdate rejects: the repository wraps the error, the service
\* logs it and throws it on
UpdateProfileRepositoryRejects(c, message) ==
  LET caught == <<"Failed to update user profile: ">> \o message IN
  /\ proc[c].op = "updateProfile" /\ proc[c].pc = "findByIdAndUpdate"
  /\ proc' = [proc EXCEPT ![c] =
       [@ EXCEPT !.pc = "done"] @@
       [res  |-> updateProfileResponse(Throw(caught)),
        logs |-> updateProfileLogs(caught)]]
  /\ UNCHANGED <<users, nextId, rnd, now, ticks, encKey, issued, plain, budget, edge>>

InitLog ==
  /\ LoggedIn
  /\ ticks = 0
  /\ budget = MaxLogRequests
  /\ proc = [c \in Procs |-> Idle]
  /\ Outside

NextLog ==
  \E c \in Procs :
    \/ \E token \in {AliceToken, BobToken} : GetProfile(c, Bearer(token))
    \/ GetProfileFindUserById(c)
    \/ \E message \in StoreErrors : GetProfileRepositoryRejects(c, message)
    \/ \E token \in {AliceToken, BobToken} : \E body \in UpdateAttempts :
         UpdateProfile(c, Bearer(token), body)
    \/ UpdateProfileFindByIdAndUpdate(c)
    \/ \E message \in StoreErrors : UpdateProfileRepositoryRejects(c, message)
    \/ UpdateProfileRefresh(c)

SpecLog == InitLog /\ [][NextLog]_vars

(***************************************************************************)
(* Updates after a key rotation: PUT and GET /api/profile by two logged-in *)
(* users on a server started with the key the stored triples were written  *)
(* under, or with another one.                                             *)
(***************************************************************************)
MaxRotatedRequests == 2

RotatedBodies ==
  UpdateAttempts \cup { [firstName |-> <<"A", "l", "i">>, lastName |-> <<"L", "i">>] }

InitRotated ==
  /\ users \in {{seed(Alice, 1, 1, 2, 0), seed(Bob, 2, 3, 4, 0)}, {seed(Bob, 2, 3, 4, 0)}}
  /\ nextId = 3
  /\ rnd = 5
  /\ now = 0
  /\ ticks = 0
  /\ encKey \in {"k1", "k2"}
  /\ issued = {AliceToken, BobToken}
  /\ plain = (1 :> [password |-> Alice.password, aadhaarNumber |-> Alice.aadhaarNumber])
          @@ (2 :> [password |-> Bob.password, aadhaarNumber |-> Bob.aadhaarNumber])
  /\ budget = MaxRotatedRequests
  /\ proc = [c \in Procs |-> Idle]
  /\ Outside

NextRotated ==
  \E c \in Procs :
    \/ \E token \in {AliceToken, BobToken} : \E body \in RotatedBodies :
         UpdateProfile(c, Bearer(token), body)
    \/ UpdateProfileFindByIdAndUpdate(c)
    \/ UpdateProfileRefresh(c)
    \/ \E token \in {AliceToken, BobToken} : GetProfile(c, Bearer(token))
    \/ GetProfileFindUserById(c)

SpecRotated == InitRotated /\ [][NextRotated]_vars

(***************************************************************************)
(* RateLimitMiddleware, mounted before the routes.  Its middleware is      *)
(* synchronous: one request is one step.                                   *)
(***************************************************************************)
maxAttempts == 2         \* the constructor's maxAttempts (100 when omitted)
windowMs == 900000       \* the constructor's windowMs: 15 * 60 * 1000
MaxRateRequests == 4     \* requests in one behaviour of SpecRate

\* Date.now()
DateNow == now * 1000 + millis

\* Math.ceil(x / d) for integers x and d > 0
ceilDiv(x, d) == -((-x) \div d)

\* String.prototype.startsWith
startsWith(s, prefix) ==
  Len(s) >= Len(prefix) /\ SubSeq(s, 1, Len(prefix)) = prefix

ApiAuthPrefix == <<"/", "a", "p", "i", "/", "a", "u", "t", "h", "/">>

\* req.ip || req.connection.remoteAddress || 'unknown'; "" is an absent value
getClientId(req) ==
  IF req.ip # "" THEN req.ip
  ELSE IF req.remoteAddress # "" THEN req.remoteAddress
  ELSE "unknown"

\* what the middleware does with a request: the map afterwards, whether
\* next() is called, and the response it sends itself
rateLimit_CountsToo(req, map, at) ==
  LET clientId == getClientId(req)
      fresh == clientId \notin DOMAIN map
  IN
  IF ~startsWith(req.path, ApiAuthPrefix)
    THEN [map |-> map, next |-> TRUE, res |-> [status |-> 0]]
  ELSE IF fresh \/ (~fresh /\ at > map[clientId].resetTime)
    THEN [map |-> [id \in DOMAIN map \cup {clientId} |->
                     IF id = clientId
                       THEN [count |-> 1, resetTime |-> at + windowMs]
                       ELSE map[id]],
          next |-> TRUE, res |-> [status |-> 0]]
  ELSE IF map[clientId].count <= maxAttempts
    THEN [map |-> [map EXCEPT ![clientId].count = @ + 1],
          next |-> TRUE, res |-> [status |-> 0]]
  ELSE [map |-> map, next |-> FALSE,
        res |-> [status |-> 429, error |-> "Too many requests",
                 message |-> "Rate limit exceeded. Please try again later.",
                 retryAfter |-> ceilDiv(map[clientId].resetTime - at, 1000)]]

\* a limiter whose windows never run out
rateLimit_NeverExpires(req, map, at) ==
  LET clientId == getClientId(req)
      fresh == clientId \notin DOMAIN map
  IN
  IF ~startsWith(req.path, ApiAuthPrefix)
    THEN [map |-> map, next |-> TRUE, res |-> [status |-> 0]]
  ELSE IF fresh
    THEN [map |-> [id \in DOMAIN map \cup {clientId} |->
                     IF id = clientId
                       THEN [count |-> 1, resetTime |-> at + windowMs]
                       ELSE map[id]],
          next |-> TRUE, res |-> [status |-> 0]]
  ELSE IF map[clientId].count < maxAttempts
    THEN [map |-> [map EXCEPT ![clientId].count = @ + 1],
          next |-> TRUE, res |-> [status |-> 0]]
  ELSE [map |-> map, next |-> FALSE,
        res |-> [status |-> 429, error |-> "Too many requests",
                 message |-> "Rate limit exceeded. Please try again later.",
                 retryAfter |-> ceilDiv(map[clientId].resetTime - at, 1000)]]

rateLimit(req, map, at) ==
  LET clientId == getClientId(req)
      fresh == clientId \notin DOMAIN map
  IN
  IF ~startsWith(req.path, ApiAuthPrefix)
    THEN [map |-> map, next |-> TRUE, res |-> [status |-> 0]]
  ELSE IF fresh \/ (~fresh /\ at > map[clientId].resetTime)
    THEN [map |-> [id \in DOMAIN map \cup {clientId} |->
                     IF id = clientId
                       THEN [count |-> 1, resetTime |-> at + windowMs]
                       ELSE map[id]],
          next |-> TRUE, res |-> [status |-> 0]]
  ELSE IF map[clientId].count < maxAttempts
    THEN [map |-> [map EXCEPT ![clientId].count = @ + 1],
          next |-> TRUE, res |-> [status |-> 0]]
  ELSE [map |-> map, next |-> FALSE,
        res |-> [status |-> 429, error |-> "Too many requests",
                 message |-> "Rate limit exceeded. Please try again later.",
                 retryAfter |-> ceilDiv(map[clientId].resetTime - at, 1000)]]

\* RateLimitMiddleware.middleware serving one request
middleware(c, req) ==
  LET outcome == rateLimit(req, attempts, DateNow) IN
  /\ CanBegin(c)
  /\ budget' = budget - 1
  /\ attempts' = outcome.map
  /\ passedOn' = IF outcome.next /\ startsWith(req.path, ApiAuthPrefix)
                   THEN Append(passedOn, [clientId |-> getClientId(req), at |-> DateNow])
                   ELSE passedOn
  /\ proc' = [proc EXCEPT ![c] =
       [op |-> "middleware", pc |-> "done", arg |-> req,
        next |-> outcome.next, res |-> outcome.res]]
  /\ UNCHANGED <<users, nextId, rnd, now, ticks, encKey, issued, plain,
                 millis, localStorage, location, removed>>

\* RateLimitMiddleware.cleanup, run by the constructor's interval timer
cleanup ==
  LET expired == {id \in DOMAIN attempts : DateNow > attempts[id].resetTime} IN
  /\ expired # {}
  /\ attempts' = [id \in DOMAIN attempts \ expired |-> attempts[id]]
  /\ UNCHANGED <<users, nextId, rnd, now, ticks, encKey, issued, plain, budget,
                 proc, millis, passedOn, localStorage, location, removed>>

\* the time between two requests, in milliseconds
Pauses == {1, windowMs}

Elapse(ms) ==
  /\ ticks < MaxTicks
  /\ now' = now + ((millis + ms) \div 1000)
  /\ millis' = (millis + ms) % 1000
  /\ ticks' = ticks + 1
  /\ UNCHANGED <<users, nextId, rnd, encKey, issued, plain, budget, proc,
                 attempts, passedOn, localStorage, location, removed>>

PathLogin      == ApiAuthPrefix \o <<"l", "o", "g", "i", "n">>
PathLoginUpper == <<"/", "A", "P", "I", "/", "a", "u", "t", "h", "/", "l", "o", "g", "i", "n">>
PathProfile    == <<"/", "a", "p", "i", "/", "p", "r", "o", "f", "i", "l", "e">>

\* an address, a request whose address is only known from the socket, and
\* one with no address at all
RateRequests ==
  {[ip |-> "10.0.0.1", remoteAddress |-> "10.0.0.1", path |-> PathLogin],
   [ip |-> "", remoteAddress |-> "10.0.0.1", path |-> PathLogin],
   [ip |-> "", remoteAddress |-> "", path |-> PathLogin],
   [ip |-> "10.0.0.1", remoteAddress |-> "10.0.0.1", path |-> PathProfile],
   [ip |-> "10.0.0.1", remoteAddress |-> "10.0.0.1", path |-> PathLoginUpper]}

InitRate ==
  /\ Boot
  /\ encKey = "k1"
  /\ budget = MaxRateRequests

\* the middleware is synchronous, so requests are served one after the
\* other whatever connection they arrive on
NextRate ==
  \/ \E req \in RateRequests : middleware("c1", req)
  \/ cleanup
  \/ \E ms \in Pauses : Elapse(ms)

SpecRate == InitRate /\ [][NextRate]_vars

(***************************************************************************)
(* services/api.ts: the browser's axios instance, its interceptors and the *)
(* retry wrapper.  A response or a failure is delivered by the adapter in  *)
(* one step, in which the response interceptor and the catch block of      *)
(* retryRequest run one after the other.                                   *)
(***************************************************************************)
MAX_RETRIES == 3
MaxClientCalls == 2      \* calls of apiWithRetry in one behaviour of SpecClient
MaxRetryCalls == 2       \* calls of apiWithRetry in one behaviour of SpecRetry
MaxStoredTokens == 1     \* logins that store a token in one behaviour

UrlLogin          == <<"/", "a", "u", "t", "h", "/", "l", "o", "g", "i", "n">>
UrlRegister       == <<"/", "a", "u", "t", "h", "/", "r", "e", "g", "i", "s", "t", "e", "r">>
UrlVerifyPassword == <<"/", "p", "r", "o", "f", "i", "l", "e", "/", "v", "e", "r", "i", "f", "y", "-",
                       "p", "a", "s", "s", "w", "o", "r", "d">>
UrlProfile        == <<"/", "p", "r", "o", "f", "i", "l", "e">>

\* the tokens successive logins return
ClientTokens == <<"token1", "token2", "token3">>

NoAuthorization == [scheme |-> "none", token |-> ""]

\* what the adapter delivers for one attempt: a response with a status and
\* the message of its body ("" when the body has none), or no response
\* (status 0) with the code of the failure
Responses ==
  {[response |-> TRUE, status |-> st, data |-> m, code |-> "ERR_BAD_RESPONSE"] :
     st \in {400, 401, 403, 404, 409, 422, 429, 500, 503}, m \in {""}}
  \cup {[response |-> TRUE, status |-> 401, data |-> "Invalid credentials", code |-> "ERR_BAD_REQUEST"],
        [response |-> TRUE, status |-> 200, data |-> "", code |-> ""],
        [response |-> FALSE, status |-> 0, data |-> "", code |-> "ECONNABORTED"],
        [response |-> FALSE, status |-> 0, data |-> "", code |-> "ERR_NETWORK"]}

\* validateStatus of axios: a status from 200 to 299 resolves
Resolves(outcome) == outcome.response /\ outcome.status >= 200 /\ outcome.status < 300

\* a || b on strings
OrElse(a, b) == IF a # "" THEN a ELSE b

isAuthRequest(config) ==
  \/ includes(config.url, UrlLogin)
  \/ includes(config.url, UrlRegister)
  \/ includes(config.url, UrlVerifyPassword)

\* isRetryableError, asked about an error the interceptors have not transformed
isRetryableError(error, config) ==
  IF isAuthRequest(config) THEN FALSE
  ELSE IF ~error.response THEN TRUE
  ELSE error.status >= 500 \/ error.status = 429

\* createApiError; status 0 is an ApiError without status
createApiError(error) ==
  IF ~error.response
    THEN IF error.code = "ECONNABORTED"
           THEN [message |-> "Request timed out. Please check your internet connection and try again.",
                 status |-> 0, code |-> "TIMEOUT", retryable |-> TRUE]
           ELSE [message |-> "Network error. Please check your internet connection and try again.",
                 status |-> 0, code |-> "NETWORK_ERROR", retryable |-> TRUE]
  ELSE LET status == error.status
           data == error.data
       IN
       CASE status = 400 ->
              [message |-> OrElse(data, "Invalid request. Please check your input and try again."),
               status |-> status, code |-> "BAD_REQUEST", retryable |-> FALSE]
         [] status = 401 ->
              [message |-> OrElse(data, "Authentication failed. Please check your credentials."),
               status |-> status, code |-> "UNAUTHORIZED", retryable |-> FALSE]
         [] status = 403 ->
              [message |-> "Access denied. You do not have permission to perform this action.",
               status |-> status, code |-> "FORBIDDEN", retryable |-> FALSE]
         [] status = 404 ->
              [message |-> "The requested resource was not found.",
               status |-> status, code |-> "NOT_FOUND", retryable |-> FALSE]
         [] status = 409 ->
              [message |-> OrElse(data, "This email is already registered. Please use a different email or try logging in."),
               status |-> status, code |-> "CONFLICT", retryable |-> FALSE]
         [] status = 429 ->
              [message |-> "Too many requests. Please wait a moment and try again.",
               status |-> status, code |-> "RATE_LIMITED", retryable |-> TRUE]
         [] status = 500 ->
              [message |-> "Server error occurred. Please try again later.",
               status |-> status, code |-> "SERVER_ERROR", retryable |-> TRUE]
         [] OTHER ->
              [message |-> OrElse(data, "An unexpected error occurred. Please try again."),
               status |-> status, code |-> "UNKNOWN_ERROR", retryable |-> status >= 500]

\* the request interceptor: the Authorization header of an attempt
requestInterceptor(storage) ==
  IF "authToken" \in DOMAIN storage /\ storage["authToken"] # ""
    THEN [scheme |-> "Bearer", token |-> storage["authToken"]]
    ELSE NoAuthorization

\* localStorage.removeItem
removeItem(storage, key) == [k \in DOMAIN storage \ {key} |-> storage[k]]

\* a response interceptor that exempts no request
logsOut_Always(apiError, config) == apiError.status = 401

\* the test of the response interceptor: does this failure log the user out
logsOut(apiError, config) ==
  /\ apiError.status = 401
  /\ ~includes(config.url, UrlVerifyPassword)
  /\ ~includes(config.url, UrlLogin)

\* the response interceptor on a failure: the ApiError it rejects with,
\* localStorage and window.location.href afterwards
responseInterceptor(error, config, storage, href) ==
  LET apiError == createApiError(error) IN
  IF logsOut(apiError, config)
    THEN [error |-> apiError, storage |-> removeItem(storage, "authToken"), href |-> "/login"]
    ELSE [error |-> apiError, storage |-> storage, href |-> href]

\* a catch block that allows one attempt more
retries_OneMore(apiError, config, retryCount) ==
  retryCount <= MAX_RETRIES /\ apiError.retryable

\* the catch block of retryRequest: what reaches it has been through the
\* response interceptor, so it has code and message and the first branch is
\* taken
retries(apiError, config, retryCount) ==
  IF "code" \in DOMAIN apiError /\ "message" \in DOMAIN apiError
    THEN retryCount < MAX_RETRIES /\ apiError.retryable
    ELSE retryCount < MAX_RETRIES /\ isRetryableError(apiError, config)

\* apiWithRetry.get, post, put, delete: retryRequest(config) up to the
\* moment the first attempt is on the wire
ApiCall(c, config) ==
  /\ CanBegin(c)
  /\ budget' = budget - 1
  /\ proc' = [proc EXCEPT ![c] =
       [op |-> "retryRequest", pc |-> "request", config |-> config, retryCount |-> 0,
        sent |-> <<requestInterceptor(localStorage)>>, last |-> -1]]
  /\ UNCHANGED <<users, nextId, rnd, now, ticks, encKey, issued, plain,
                 attempts, millis, passedOn, localStorage, location, removed>>

\* the attempt on the wire settles; last is its status, 0 without a response
AdapterSettles(c, outcome) ==
  /\ proc[c].op = "retryRequest"
  /\ proc[c].pc = "request"
  /\ IF Resolves(outcome)
       THEN /\ proc' = [proc EXCEPT ![c] =
                 [@ EXCEPT !.pc = "done", !.last = outcome.status]
                   @@ [res |-> [ok |-> TRUE, status |-> outcome.status]]]
            /\ UNCHANGED <<localStorage, location, removed>>
       ELSE LET after == responseInterceptor(outcome, proc[c].config, localStorage, location) IN
            /\ localStorage' = after.storage
            /\ location' = after.href
            /\ removed' = removed \cup
                 {localStorage[k] : k \in DOMAIN localStorage \ DOMAIN after.storage}
            /\ proc' = [proc EXCEPT ![c] =
                 IF retries(after.error, proc[c].config, proc[c].retryCount)
                   THEN [@ EXCEPT !.pc = "delay", !.last = outcome.status]
                   ELSE [@ EXCEPT !.pc = "done", !.last = outcome.status]
                          @@ [res |-> [ok |-> FALSE, error |-> after.error]]]
  /\ UNCHANGED <<users, nextId, rnd, now, ticks, encKey, issued, plain, budget,
                 attempts, millis, passedOn>>

\* the timer of the backoff fires: retryRequest(config, retryCount + 1)
RetryFires(c) ==
  /\ proc[c].op = "retryRequest"
  /\ proc[c].pc = "delay"
  /\ proc' = [proc EXCEPT ![c] =
       [@ EXCEPT !.pc = "request", !.retryCount = @ + 1,
                 !.sent = Append(@, requestInterceptor(localStorage))]]
  /\ UNCHANGED <<users, nextId, rnd, now, ticks, encKey, issued, plain, budget,
                 attempts, millis, passedOn, localStorage, location, removed>>

\* a login has succeeded and its token is stored in localStorage
StoreToken ==
  LET n == Cardinality(issued) IN
  /\ n < MaxStoredTokens
  /\ issued' = issued \cup {ClientTokens[n + 1]}
  /\ localStorage' = [k \in DOMAIN localStorage \cup {"authToken"} |->
                        IF k = "authToken" THEN ClientTokens[n + 1] ELSE localStorage[k]]
  /\ UNCHANGED <<users, nextId, rnd, now, ticks, encKey, plain, budget, proc,
                 attempts, millis, passedOn, location, removed>>

ClientConfigs ==
  {[method |-> "GET", url |-> UrlProfile],
   [method |-> "POST", url |-> UrlVerifyPassword],
   [method |-> "POST", url |-> UrlLogin],
   [method |-> "POST", url |-> UrlRegister]}

\* one call after the other, with every response and failure
InitRetry ==
  /\ Boot
  /\ encKey = "k1"
  /\ budget = MaxRetryCalls

NextRetry ==
  \/ \E config \in ClientConfigs : ApiCall("c1", config)
  \/ \E outcome \in Responses : AdapterSettles("c1", outcome)
  \/ RetryFires("c1")

SpecRetry == InitRetry /\ [][NextRetry]_vars

\* what a session sees of the server: success, a rejected token, a failure
\* of the server
SessionResponses == {outcome \in Responses : outcome.status \in {200, 401, 500} /\ outcome.data = ""}

\* the calls of a session: the profile, the password check, a login
SessionConfigs == {config \in ClientConfigs : config.url # UrlRegister}

\* two calls at a time, logins in between
InitClient ==
  /\ Boot
  /\ encKey = "k1"
  /\ budget = MaxClientCalls

NextClient ==
  \/ \E c \in Procs :
       \/ \E config \in SessionConfigs : ApiCall(c, config)
       \/ \E outcome \in SessionResponses : AdapterSettles(c, outcome)
       \/ RetryFires(c)
  \/ StoreToken

SpecClient == InitClient /\ [][NextClient]_vars

(***************************************************************************)
(* Properties of registration.                                             *)
(***************************************************************************)
IsRegister(c) == proc[c].op = "register"

Answered(c) == proc[c].pc = "done"

Stepped(c) == proc'[c] # proc[c]

\* C1: the store write is the single commit point of registerUser: a step
\* of a registration changes the users collection only if it is the served
\* save, it adds exactly one document, and the call then returns success;
\* a registration that ends in an error has changed nothing.
C1_StoreWriteIsCommitPoint ==
  [][\A c \in Procs :
       (Stepped(c) /\ IsRegister(c)' /\ users' # users) =>
         /\ proc[c].pc = "createUser"
         /\ proc'[c].pc = "done" /\ proc'[c].res.ok
         /\ users \subseteq users' /\ Cardinality(users') = Cardinality(users) + 1]_vars

\* a registration failed at the store write itself
C1_Witness ==
  \E c \in Procs :
    /\ IsRegister(c) /\ Answered(c) /\ ~proc[c].res.ok
    /\ Len(proc[c].calls) = 2
    /\ proc[c].res.message = <<"Registration failed">>

\* C2: a registration that breaks a structural rule ends with the
\* validation error and has invoked no repository method; a registration
\* that has invoked one has passed validation.
C2_ValidationPrecedesStore ==
  \A c \in Procs :
    IsRegister(c) =>
      /\ proc[c].arg \in InvalidRegistrations =>
           /\ Answered(c) /\ ~proc[c].res.ok
           /\ proc[c].res.message[1] = "Validation failed: "
           /\ Len(proc[c].res.message) >= 2
           /\ proc[c].calls = <<>>
      /\ proc[c].calls # <<>> => proc[c].arg \notin InvalidRegistrations

C2_Witness ==
  \E c \in Procs :
    /\ IsRegister(c) /\ Answered(c)
    /\ proc[c].arg.email = EmailDotDot
    /\ proc[c].res.message = <<"Validation failed: ", "Invalid email format">>

\* the call was made with valid data while its email was on record
DuplicateCall(c) ==
  /\ IsRegister(c)
  /\ proc[c].arg \notin InvalidRegistrations
  /\ toLowerCase(proc[c].arg.email) \in proc[c].pre

\* C3: registering an email that is already on record fails with 'Email
\* already exists', and no step of that call creates, removes or changes a
\* document.
C3_DuplicateRejected ==
  /\ [](\A c \in Procs :
          (DuplicateCall(c) /\ Answered(c)) =>
            proc[c].res = Throw(<<"Email already exists">>))
  /\ [][\A c \in Procs :
          (Stepped(c) /\ DuplicateCall(c)') => users' = users]_vars

C3_Witness ==
  \E c \in Procs :
    /\ DuplicateCall(c) /\ Answered(c)
    /\ proc[c].arg = AliceAgain
    /\ \E u \in users : u.email = EmailAlice /\ u.firstName = Alice.firstName

\* the call passed the emailExists pre-check and its save was served
Raced(c) ==
  /\ IsRegister(c) /\ Answered(c)
  /\ proc[c].calls = <<"emailExists", "createUser">>
  /\ proc[c].arg \in ValidRegistrations

IsLogin(c) == proc[c].op = "login"

FailedLogin(c) == IsLogin(c) /\ Answered(c) /\ ~proc[c].res.ok

C6_OnlyTheRegisteredPassword ==
  \A c \in Procs :
    (IsLogin(c) /\ Answered(c) /\ proc[c].found) =>
      (proc[c].res.ok <=> proc[c].arg.password = plain[proc[c].user.id].password)

\* C7: the token of a successful login carries the id and the email of the
\* record found, expires 24 hours after iat, and validateToken returns the
\* same userId and email for it when the login returns.
C7_TokenClaims ==
  \A c \in Procs :
    (IsLogin(c) /\ Answered(c) /\ proc[c].res.ok) =>
      LET payload == proc[c].res.token.payload
          decoded == validateToken(proc[c].res.token, proc[c].at)
      IN
      /\ payload.userId = proc[c].user.id
      /\ payload.email = proc[c].user.email
      /\ payload.exp = payload.iat + TokenLifetime
      /\ decoded.ok
      /\ decoded.value.userId = payload.userId
      /\ decoded.value.email = payload.email

(***************************************************************************)
(* Properties of tokens.                                                   *)
(***************************************************************************)
IsValidateToken(c) == proc[c].op = "validateToken"

BadSignature(token) ==
  token.segments = 3 /\ token.signature # HS256(token.payload, JwtSecret)

\* C8: a returned token is accepted at every time before its exp claim and
\* rejected with 'Token expired' from that time on, whatever has happened
\* since its login: both for the validations requested and at every
\* instant a behaviour reaches.
C8_ExpiryBoundary ==
  /\ \A t \in issued :
       validateToken(t, now) =
         IF now < t.payload.exp THEN [ok |-> TRUE, value |-> t.payload]
                                ELSE Throw(<<"Token expired">>)
  /\ \A c \in Procs :
       (IsValidateToken(c) /\ proc[c].arg \in issued) =>
         proc[c].res =
           IF proc[c].at < proc[c].arg.payload.exp
             THEN [ok |-> TRUE, value |-> proc[c].arg.payload]
             ELSE Throw(<<"Token expired">>)

\* a returned token was accepted one second before its expiry, and the
\* clock has since reached the expiry, where it is rejected
C8_Witness ==
  \E c \in Procs :
    /\ IsValidateToken(c) /\ proc[c].arg \in issued
    /\ proc[c].at = proc[c].arg.payload.exp - 1 /\ proc[c].res.ok
    /\ now = proc[c].arg.payload.exp
    /\ validateToken(proc[c].arg, now) = Throw(<<"Token expired">>)

\* C9: validateToken accepts only tokens a successful login has returned;
\* the set of returned tokens grows only by the token of a login that
\* returns; a token whose signature does not verify gets 'Invalid token'
\* whatever its exp claim.
C9_OnlyLoginIssuesTokens ==
  /\ [](\A c \in Procs :
          IsValidateToken(c) =>
            /\ proc[c].res.ok => proc[c].arg \in issued
            /\ BadSignature(proc[c].arg) => proc[c].res = Throw(<<"Invalid token">>))
  /\ [][issued' # issued =>
          \E c \in Procs :
            /\ IsLogin(c) /\ proc[c].pc = "updateLastLogin"
            /\ proc'[c].pc = "done" /\ proc'[c].res.ok
            /\ issued' = issued \cup {proc'[c].res.token}]_vars

\* while a returned token exists, a token signed with another secret and
\* carrying an exp claim that has passed was rejected as invalid
C9_Witness ==
  \E c \in Procs :
    /\ issued # {}
    /\ IsValidateToken(c) /\ BadSignature(proc[c].arg)
    /\ proc[c].arg.payload.exp <= proc[c].at
    /\ proc[c].res = Throw(<<"Invalid token">>)

(***************************************************************************)
(* Properties of the profile routes.                                       *)
(***************************************************************************)
IsProfile(c) == proc[c].op \in {"getProfile", "updateProfile"}

\* the request has reached a profile service method, a decryption, or a
\* 200 answer
ReachedProfileData(c) ==
  \/ proc[c].calls # <<>>
  \/ proc[c].decrypted # {}
  \/ Answered(c) /\ proc[c].res.status = 200

\* C10: a profile request (GET or PUT /api/profile) reaches getUserProfile
\* or updateUserProfile, and has a stored triple decrypted, only if its
\* Authorization header carried a bearer token that a login returned and
\* that was unexpired when the middleware validated it; the only record
\* decrypted for it is the one whose id is the token's userId claim, and a
\* 200 answer carries that record's id and no other user's Aadhaar number.
C10_DecryptionOnlyForTokenSubject ==
  \A c \in Procs :
    (IsProfile(c) /\ ReachedProfileData(c)) =>
      LET authHeader == proc[c].arg IN
      /\ authHeader.present
      /\ authHeader.head = BearerPrefix
      /\ authHeader.rest # <<>>
      /\ LET token == authHeader.rest[1] IN
         /\ token \in issued
         /\ proc[c].at < token.payload.exp
         /\ proc[c].decrypted \subseteq {token.payload.userId}
         /\ (Answered(c) /\ proc[c].res.status = 200) =>
              /\ proc[c].res.user.id = token.payload.userId
              /\ \A other \in DOMAIN plain \ {token.payload.userId} :
                   proc[c].res.user.aadhaarNumber # plain[other].aadhaarNumber

\* Alice's token fetched Alice's profile with her Aadhaar number decrypted,
\* while Bob's record, with another Aadhaar number, is in the store
C10_Witness ==
  \E c \in Procs :
    /\ proc[c].op = "getProfile" /\ Answered(c)
    /\ proc[c].res.status = 200
    /\ proc[c].decrypted = {1}
    /\ proc[c].res.user.aadhaarNumber = plain[1].aadhaarNumber
    /\ 2 \in DOMAIN plain
    /\ plain[2].aadhaarNumber # plain[1].aadhaarNumber

\* the middleware called next(): req.user is attached to the request
PassedMiddleware(c) == "user" \in DOMAIN proc[c]

C12_ProfileReturnsLastWritten ==
  /\ [][\A c \in Procs :
          (proc[c].op = "getProfile" /\ Stepped(c) /\ Answered(c)') =>
            /\ proc[c].res'.status = 200
            /\ proc[c].res'.user.id = proc[c].user.userId
            /\ proc[c].res'.user.aadhaarNumber = plain[proc[c].user.userId].aadhaarNumber]_vars
  /\ [](\A u \in users :
          fromHex(u.aadhaarNumber).of =
            gcmCiphertext(encKey, fromHex(u.aadhaarIv).of, toUtf8(plain[u.id].aadhaarNumber)))

\* after Alice replaced her Aadhaar number and Carol registered, Alice's
\* profile was returned with the new number
C12_Witness ==
  \E c \in Procs :
    /\ proc[c].op = "getProfile" /\ Answered(c) /\ proc[c].res.status = 200
    /\ proc[c].res.user.id = 1
    /\ proc[c].res.user.aadhaarNumber = AadhaarTwo
    /\ plain[1].aadhaarNumber = AadhaarTwo
    /\ 3 \in DOMAIN plain

\* the stored (ciphertext, iv, authTag) triple of a record
triple(u) ==
  [encryptedData |-> u.aadhaarNumber, iv |-> u.aadhaarIv, authTag |-> u.aadhaarAuthTag]

\* C13: in every reachable state the triple of each record is the output
\* of one encryptSensitiveData call, and every step that changes one of the
\* three fields of a record changes all three (register and updateProfile
\* write them in one store write).
C13_TripleWrittenTogether ==
  /\ [](\A u \in users :
          LET made == encryptSensitiveData(fromUtf8(u.aadhaarNumber.of.plaintext), encKey,
                                           u.aadhaarIv.of)
          IN made.ok /\ triple(u) = made.value)
  /\ [][\A u \in users : \A v \in users' :
          (u.id = v.id /\ triple(u) # triple(v)) =>
            /\ u.aadhaarNumber # v.aadhaarNumber
            /\ u.aadhaarIv # v.aadhaarIv
            /\ u.aadhaarAuthTag # v.aadhaarAuthTag]_vars

\* Alice's triple has been replaced by an update, under a fresh iv, and a
\* record has been created by a registration
C13_Witness ==
  /\ \E u \in users : u.id = 1 /\ u.aadhaarIv.of >= 5
                      /\ u.aadhaarNumber.of.plaintext = toUtf8(AadhaarTwo)
  /\ \E u \in users : u.id = 3

\* the triple of u is what encryptSensitiveData returns under the key in use
Decryptable(u) ==
  /\ encKey # NoKey
  /\ ~IsEmptyString(u.aadhaarNumber)
  /\ LET made == encryptSensitiveData(fromUtf8(u.aadhaarNumber.of.plaintext), encKey,
                                       u.aadhaarIv.of)
     IN
     made.ok /\ triple(u) = made.value

C15_VerifyPasswordOutcomes ==
  \A c \in Procs :
    (proc[c].op = "verifyPassword" /\ Answered(c) /\ proc[c].calls # <<>>) =>
      LET userId == proc[c].user.userId
          res == proc[c].res
      IN
      IF findById(users, userId) = {}
        THEN res.status = 404 /\ res.message = <<"User not found">>
      ELSE IF proc[c].body.password = plain[userId].password
        THEN res.status = 200 /\ res.verified
      ELSE res.status = 401

(***************************************************************************)
(* Properties of profile updates.                                          *)
(***************************************************************************)
\* a field of the body breaks its format: a first or last name that is
\* empty or white space, a phone that is not a phone number, an Aadhaar
\* number that is not 12 digits
FailsUpdateValidation(body) ==
  \/ Has(body, "firstName") /\ Len(trim(body.firstName)) = 0
  \/ Has(body, "lastName") /\ Len(trim(body.lastName)) = 0
  \/ Has(body, "phone") /\ ~validatePhone(body.phone)
  \/ Has(body, "aadhaarNumber") /\ ~validateAadhaar(body.aadhaarNumber)

\* C16: an authenticated PUT /api/profile whose body has a field failing
\* validation is answered with a 4xx validation failure, and one with a
\* valid body for a userId without a record with 404.
C16_UpdateFailuresSurfaced ==
  \A c \in Procs :
    (proc[c].op = "updateProfile" /\ Answered(c) /\ PassedMiddleware(c)) =>
      IF FailsUpdateValidation(proc[c].body)
        THEN proc[c].res.status \in 400..499
        ELSE findById(users, proc[c].user.userId) = {} => proc[c].res.status = 404

\* C17: whenever a step of an updateProfile request replaces the stored
\* triple of a record, the request supplied an aadhaarNumber that satisfies
\* the 12-digit format, and the new triple encrypts that value.
C17_OnlyValidatedAadhaarStored ==
  [][\A c \in Procs :
       (proc[c].op = "updateProfile" /\ Stepped(c)) =>
         \A u \in users : \A v \in users' :
           (u.id = v.id /\ u.id = proc[c].user.userId /\ triple(u) # triple(v)) =>
             /\ Has(proc[c].body, "aadhaarNumber")
             /\ validateAadhaar(proc[c].body.aadhaarNumber)
             /\ v.aadhaarNumber.of.plaintext = toUtf8(proc[c].body.aadhaarNumber)]_vars

(***************************************************************************)
(* Properties of the configuration.                                        *)
(***************************************************************************)
\* C18: a server without ENCRYPTION_KEY handles no request: in particular
\* no registration that has passed its uniqueness check fails while the
\* key is absent.
C18_MissingSecretStopsStartup ==
  \A c \in Procs :
    (IsRegister(c) /\ Answered(c) /\ proc[c].calls # <<>> /\ ~proc[c].res.ok) =>
      encKey # NoKey

(***************************************************************************)
(* The encryption service                                                  *)
(***************************************************************************)
IsCrypto(c) == proc[c].op = "decrypt"

\* C19: for every non-empty string s and a fixed configured key,
\* decryptSensitiveData(encryptSensitiveData(s)) returns s
C19_RoundTrip ==
  \A c \in Procs :
    ( /\ IsCrypto(c)
      /\ Len(proc[c].plaintext) > 0
      /\ proc[c].given = proc[c].made.value
      /\ proc[c].key = proc[c].madeUnder )
    => /\ proc[c].result.ok
       /\ proc[c].result.value = proc[c].plaintext

\* C20: decryptSensitiveData returns a plaintext only for the unaltered
\* triple of an encrypt call under the key now configured; with another
\* key, an altered or a missing component it throws 'Decryption failed'
C20_FailsClosed ==
  \A c \in Procs :
    IsCrypto(c)
    => IF /\ proc[c].given = proc[c].made.value
          /\ proc[c].key = proc[c].madeUnder
         THEN proc[c].result.ok
         ELSE /\ ~proc[c].result.ok
              /\ MessageIncludes(proc[c].result.message, "Decryption failed")

(***************************************************************************)
(* Responses                                                               *)
(***************************************************************************)
Responded(c) == proc[c].pc = "done" /\ "res" \in DOMAIN proc[c]

\* needle occurs in text
Within(needle, text) ==
  \E i \in 1..(Len(text) - Len(needle) + 1) : SubSeq(text, i, i + Len(needle) - 1) = needle

\* the names of the members of a response body, those of its user object
\* and of its token's payload included
Members(res) ==
  (DOMAIN res \ {"ok"})
  \cup (IF "user" \in DOMAIN res THEN DOMAIN res.user ELSE {})
  \cup (IF "token" \in DOMAIN res THEN DOMAIN res.token.payload ELSE {})

\* the texts of a response body: its message and the strings of its user
\* object
Texts(res) ==
  (IF "message" \in DOMAIN res THEN {res.message} ELSE {})
  \cup (IF "user" \in DOMAIN res
          THEN {res.user[f] : f \in DOMAIN res.user \cap
                  {"email", "firstName", "lastName", "phone", "aadhaarNumber"}}
          ELSE {})

\* the passwords and the Aadhaar numbers of the registered users and of the
\* requests in progress
KnownPasswords ==
  {plain[id].password : id \in DOMAIN plain}
  \cup {proc[c].arg.password : c \in {d \in Procs : proc[d].op \in {"register", "login"}}}

KnownAadhaar ==
  {plain[id].aadhaarNumber : id \in DOMAIN plain}
  \cup {proc[c].arg.aadhaarNumber : c \in {d \in Procs : proc[d].op = "register"}}

Logs(c) == IF "logs" \in DOMAIN proc[c] THEN proc[c].logs ELSE <<>>

\* every key-like hex string, 12-digit number and email address of text has
\* been replaced by its marker
Redacted(text) == sanitizeErrorMessage(text) = text

\* C22: every error message of the profile path that is written to a log
\* has its key-like hex strings, 12-digit numbers and email addresses
\* replaced by redaction markers
C22_LoggedErrorsAreRedacted ==
  \A c \in Procs : \A i \in 1..Len(Logs(c)) : Redacted(Logs(c)[i].text)

(***************************************************************************)
(* Frame conditions                                                        *)
(***************************************************************************)
\* C23: the id and the email of a record never change after its creation:
\* no step of any operation removes a record or alters either field
C23_IdAndEmailImmutable ==
  [][\A u \in users : \E v \in users' : v.id = u.id /\ v.email = u.email]_vars

\* an update whose body also named an email, an id and a password was
\* applied, and a login has updated its record
C23_Witness ==
  /\ \E c \in Procs : /\ proc[c].op = "updateProfile" /\ proc[c].pc = "done"
                      /\ "email" \in DOMAIN proc[c].body
                      /\ proc[c].res.status = 200
  /\ \E c \in Procs : proc[c].op = "login" /\ proc[c].pc = "done" /\ proc[c].res.ok

\* a step of the login request of c
LoginStep(c) ==
  /\ proc'[c] # proc[c]
  /\ proc'[c].op = "login"

\* C28: a loginUser that fails with 'Invalid credentials' writes nothing to
\* the store, and a successful one changes nothing but the updatedAt of the
\* record that logged in
C28_LoginWritesOnlyUpdatedAt ==
  [][\A c \in Procs :
       LoginStep(c) =>
         IF proc'[c].pc = "done" /\ proc'[c].res.ok
           THEN /\ Cardinality(users') = Cardinality(users)
                /\ \A u \in users :
                     \E v \in users' :
                       /\ v = [u EXCEPT !.updatedAt = v.updatedAt]
                       /\ u.id # proc'[c].res.user.id => v = u
           ELSE users' = users]_vars

\* one login has failed with 'Invalid credentials' and another has
\* succeeded and moved the updatedAt of its record
C28_Witness ==
  /\ \E c \in Procs : /\ proc[c].op = "login" /\ proc[c].pc = "done"
                      /\ ~proc[c].res.ok
                      /\ proc[c].res.message = <<"Invalid credentials">>
  /\ \E c \in Procs : /\ proc[c].op = "login" /\ proc[c].pc = "done"
                      /\ proc[c].res.ok
                      /\ \E u \in users : /\ u.id = proc[c].res.user.id
                                          /\ u.updatedAt # u.createdAt

\* the update request of c ends in an error with this step
UpdateEndsInError(c) ==
  /\ proc'[c] # proc[c]
  /\ proc'[c].op = "updateProfile"
  /\ proc'[c].pc = "done"
  /\ proc'[c].res.status # 200

\* C29: an updateProfile that ends in an error has left the stored record as
\* it was: the step that ends it writes nothing and the call has written
\* nothing before
C29_FailedUpdateWritesNothing ==
  [][\A c \in Procs :
       UpdateEndsInError(c) => users' = users /\ "written" \notin DOMAIN proc'[c]]_vars

(***************************************************************************)
(* Properties of the rate limiter.                                         *)
(***************************************************************************)
ClientIds == {getClientId(req) : req \in RateRequests}

\* the times at which requests of a client were handed to next(), in order
RECURSIVE PassTimes(_, _)
PassTimes(log, clientId) ==
  IF log = <<>> THEN <<>>
  ELSE LET rest == PassTimes(Tail(log), clientId) IN
       IF Head(log).clientId = clientId THEN <<Head(log).at>> \o rest ELSE rest

\* the windows of a client, read off the requests alone: a window opens
\* with the first request that is later than windowMs after the opening of
\* the window before
RECURSIVE windowsOf(_)
windowsOf(times) ==
  IF times = <<>> THEN <<>>
  ELSE LET before == windowsOf(SubSeq(times, 1, Len(times) - 1))
           t == times[Len(times)]
       IN  IF before # <<>> /\ t <= before[Len(before)].start + windowMs
             THEN [before EXCEPT ![Len(before)].count = @ + 1]
             ELSE Append(before, [start |-> t, count |-> 1])

Limited(c) == proc[c].op = "middleware"

RateStep(c) == budget' < budget /\ proc'[c].op = "middleware"

\* the client's window has run out, or the timer has removed it
Expired(clientId) ==
  clientId \in DOMAIN attempts => DateNow > attempts[clientId].resetTime

\* C30: once the clock is past the resetTime of a client's window, the
\* client's next request to an auth endpoint is handed on and opens a new
\* window with count 1; the retryAfter of a 429 answer is at least 0 seconds
\* and at most the length of the window.
C30_WindowsRunOut ==
  [][\A c \in Procs : RateStep(c) =>
       LET req == proc'[c].arg
           clientId == getClientId(req)
       IN
       /\ startsWith(req.path, ApiAuthPrefix) /\ Expired(clientId) =>
            /\ proc'[c].next
            /\ proc'[c].res.status # 429
            /\ clientId \in DOMAIN attempts'
            /\ attempts'[clientId] = [count |-> 1, resetTime |-> DateNow + windowMs]
       /\ proc'[c].res.status = 429 =>
            /\ proc'[c].res.retryAfter >= 0
            /\ proc'[c].res.retryAfter * 1000 <= windowMs]_vars

\* a client whose window was full has opened a second one
C30_Witness ==
  \E clientId \in ClientIds :
    LET windows == windowsOf(PassTimes(passedOn, clientId)) IN
    /\ Len(windows) = 2
    /\ windows[1].count = maxAttempts
    /\ clientId \in DOMAIN attempts
    /\ attempts[clientId].count = 1
    /\ \E c \in Procs : Limited(c) /\ proc[c].next /\ getClientId(proc[c].arg) = clientId

(***************************************************************************)
(* Properties of the browser client.                                       *)
(***************************************************************************)
Called(c) == proc[c].op = "retryRequest"

\* C25: a call whose URL contains /auth/login, /auth/register or
\* /profile/verify-password is attempted exactly once, whatever the failure
\* is: it is never waiting for a retry and never sent a second time.
C25_AuthRequestsSentOnce ==
  \A c \in Procs : Called(c) /\ isAuthRequest(proc[c].config) =>
    /\ proc[c].pc # "delay"
    /\ Len(proc[c].sent) = 1

\* the attempt of c that was on the wire settles in this step
Settled(c) == Called(c) /\ proc[c].pc = "request" /\ proc'[c].pc # "request"

\* the shape of an ApiError
IsApiError(error) == {"message", "code", "retryable"} \subseteq DOMAIN error

\* C26: a call is attempted at most MAX_RETRIES + 1 = 4 times; an attempt
\* is only repeated after a failure without response, with status 429 or with
\* a status of 500 or more; a failure with status 400, 401, 403, 404 or 409
\* ends the call; a call that ends in failure rejects with an ApiError, and a
\* fourth failure ends it.
C26_RetriesAreBounded ==
  [][\A c \in Procs :
       /\ Called(c)' =>
            /\ Len(proc'[c].sent) <= MAX_RETRIES + 1
            /\ Len(proc'[c].sent) = proc'[c].retryCount + 1
       /\ Settled(c) =>
            LET status == proc'[c].last IN
            /\ proc'[c].pc \in {"delay", "done"}
            /\ proc'[c].pc = "delay" =>
                 /\ status = 0 \/ status = 429 \/ status >= 500
                 /\ Len(proc[c].sent) <= MAX_RETRIES
            /\ status \in {400, 401, 403, 404, 409} => proc'[c].pc = "done"
            /\ Len(proc[c].sent) = MAX_RETRIES + 1 => proc'[c].pc = "done"
            /\ proc'[c].pc = "done" =>
                 IF status >= 200 /\ status < 300
                   THEN proc'[c].res.ok
                   ELSE /\ ~proc'[c].res.ok
                        /\ IsApiError(proc'[c].res.error)
       /\ Called(c) /\ Called(c)' /\ Len(proc'[c].sent) = Len(proc[c].sent) + 1 =>
            /\ proc[c].pc = "delay"
            /\ proc[c].last = 0 \/ proc[c].last = 429 \/ proc[c].last >= 500]_vars

\* a call has been rejected after its fourth attempt
C26_Witness ==
  \E c \in Procs :
    /\ Called(c)
    /\ proc[c].pc = "done"
    /\ Len(proc[c].sent) = MAX_RETRIES + 1
    /\ ~proc[c].res.ok
    /\ proc[c].res.error.retryable

\* an attempt of c goes on the wire in this step
Sends(c) == Called(c)' /\ proc'[c].pc = "request" /\ proc[c].pc # "request"

\* C27: a 401 answer to a request that is neither the login nor the
\* password verification removes authToken from localStorage and sends the
\* browser to /login; a 401 answer to one of those two leaves localStorage
\* and the location as they were; no attempt sent afterwards carries a token
\* that was removed.
C27_UnauthorizedLogsOut ==
  [][\A c \in Procs :
       /\ Settled(c) /\ proc'[c].last = 401 =>
            IF proc[c].config.url \in {UrlLogin, UrlVerifyPassword}
              THEN localStorage' = localStorage /\ location' = location
              ELSE /\ "authToken" \notin DOMAIN localStorage'
                   /\ location' = "/login"
       /\ Sends(c) =>
            proc'[c].sent[Len(proc'[c].sent)].token \notin removed']_vars

\* a call first sent with a token is sent again, without it, after another
\* call's 401 has removed the token
C27_Witness ==
  \E c \in Procs :
    /\ Called(c)
    /\ Len(proc[c].sent) > 1
    /\ proc[c].sent[1].token \in removed
    /\ proc[c].sent[Len(proc[c].sent)] = NoAuthorization
    /\ location = "/login"

====
